---- MODULE Spec2Model ----
(***************************************************************************)
(* Model of the satellite tracking table and position resolver of          *)
(* SkyPlotWidget (src/src/skyplot_widget.cpp, src/src/skyplot_widget.h),   *)
(* of the tabs of EphemerisWidget (src/src/ephemeris_widget.cpp) and of    *)
(* the buffer of GpsEphemerisWrapper (src/src/gps_ephemeris_wrapper.cpp).  *)
(*                                                                         *)
(* Units.  The code works on doubles; the model uses fixed point:          *)
(*   angles (elevation, azimuth, latitude, longitude) in milli-degrees,    *)
(*   so 90.0 is 90000, 360.0 is 360000 and the 0.001 near-zero threshold   *)
(*   of updateReceiverPosition is 1;                                       *)
(*   the value of a sin() call in thousandths, in -1000..1000.             *)
(* rx_time enters processSatellite only through the sin() calls of         *)
(* computeSatelliteElevation / computeSatelliteAzimuth (and, for an        *)
(* unknown system code, through time_factor); an observation therefore     *)
(* carries rx_time together with the values the three sin() calls take at  *)
(* that time (sin_orbit, sin_prn, sin_az); the observations used take them *)
(* at -1, 0 and 1, the extremes of the sine included.                      *)
(* Times are finite, and a PRN is not negative (it is unsigned in the       *)
(* message).                                                               *)
(*                                                                         *)
(* A SatelliteInfo object is owned by exactly one map slot, so a pointer   *)
(* to it (m_hoveredSatellite, m_selectedSatellite) is modelled by the key  *)
(* of that slot, NullSat being nullptr; a pointer is dangling when its key *)
(* is not in the map.  lastSeen and highlighted are written but never read *)
(* by the tracking logic and are left out.                                 *)
(***************************************************************************)
EXTENDS Integers, Naturals, Sequences, FiniteSets, TLC

\* ------------------------------------------------------------------------
\* Program constants
\* ------------------------------------------------------------------------
DEFAULT_MAX_MISSED_UPDATES == 5

NullSat == 0

\* ------------------------------------------------------------------------
\* Bounds of the model
\* ------------------------------------------------------------------------
\* observations per Observables message
MaxBatchLen == 2
\* cap of the history counter absentBatches
MaxAbsent == 7
\* cap of the history counter staleCalls
MaxStaleCalls == 7

\* ------------------------------------------------------------------------
\* State
\* ------------------------------------------------------------------------
VARIABLES
    m_satellites,                \* std::map<int, unique_ptr<SatelliteInfo>>
    m_needsUpdate,               \* bool
    m_timerActive,               \* m_updateTimer.isActive()
    m_maxMissedUpdates,          \* int
    m_receiverLat,               \* milli-degrees
    m_receiverLon,               \* milli-degrees
    m_receiverHeight,
    m_currentGpsTime,
    m_hasReceiverPosition,       \* bool
    m_totalSatellites,
    m_satellitesWithRealPos,
    m_satellitesWithComputedPos,
    m_satellitesWithFallbackPos,
    m_hoveredSatellite,          \* key of the pointed-to record, or NullSat
    m_selectedSatellite,         \* key of the pointed-to record, or NullSat
    lastOp,                      \* history: the last operation and its argument
    absentBatches,               \* history: per channel, consecutive batches without it
    staleCalls,                  \* history: clearStale() calls since the last batch
    csBase,                      \* history: table at a clearStale() call made with the timer idle
    csPhase,                     \* history: "none", "called" (clearStale ran), "done" (its timer pass ran)
    lastResolved,                \* history: per channel of the last batch, its last active observation
    emittedSignals,              \* the Qt signals emitted by the widget so far, in order
    fnArg,                       \* the argument of a function called on its own
    fnResult,                    \* its result, << >> before the call
    m_tabWidget,                 \* EphemerisWidget: the tab titles of the QTabWidget, in order
    m_ephemerisTabs,             \* EphemerisWidget: std::map<int, unique_ptr<EphemerisTabData>>
    m_maxAgeSeconds,             \* EphemerisWidget: int
    currentDateTime,             \* QDateTime::currentDateTime(), in milliseconds
    emitted,                     \* the signals the last EphemerisWidget or
                                 \* GpsEphemerisWrapper operation emitted, in order
    listener,                    \* history: the PRNs held by a listener that adds on
                                 \* satelliteAdded and removes on satelliteRemoved
    satSignal,                   \* history: per PRN, the last of satelliteAdded /
                                 \* satelliteRemoved emitted for it, "none" before any
    m_bufferEphemeris,           \* GpsEphemerisWrapper: boost::circular_buffer, front first
    lastAdded,                   \* history: the argument of the last addGpsEphemeris
    lastReturned                 \* history: the outcome of the last getLastGpsEphemeris

timerVars == <<m_needsUpdate, m_timerActive>>
fixVars   == <<m_receiverLat, m_receiverLon, m_receiverHeight, m_currentGpsTime,
               m_hasReceiverPosition>>
statVars  == <<m_totalSatellites, m_satellitesWithRealPos,
               m_satellitesWithComputedPos, m_satellitesWithFallbackPos>>
uiVars    == <<m_hoveredSatellite, m_selectedSatellite>>
histVars  == <<absentBatches, staleCalls, csBase, csPhase, lastResolved>>
callVars  == <<emittedSignals, fnArg, fnResult>>
skyVars   == <<m_satellites, timerVars, m_maxMissedUpdates, fixVars, statVars,
               uiVars, histVars, callVars>>
ephVars   == <<m_tabWidget, m_ephemerisTabs, m_maxAgeSeconds, currentDateTime,
               emitted, listener, satSignal>>
wrapVars  == <<m_bufferEphemeris, lastAdded, lastReturned>>

vars == <<m_satellites, m_needsUpdate, m_timerActive, m_maxMissedUpdates,
          m_receiverLat, m_receiverLon, m_receiverHeight, m_currentGpsTime,
          m_hasReceiverPosition, m_totalSatellites, m_satellitesWithRealPos,
          m_satellitesWithComputedPos, m_satellitesWithFallbackPos,
          m_hoveredSatellite, m_selectedSatellite, lastOp,
          absentBatches, staleCalls, csBase, csPhase, lastResolved,
          emittedSignals, fnArg, fnResult,
          m_tabWidget, m_ephemerisTabs, m_maxAgeSeconds, currentDateTime,
          emitted, listener, satSignal, m_bufferEphemeris, lastAdded, lastReturned>>

\* ------------------------------------------------------------------------
\* Input samples
\* ------------------------------------------------------------------------
ChannelIds == {1, 2}

\* One observation (gnss_sdr::GnssSynchro) of channel ch.
\*   has_position : has_flag_valid_satellite_position, has_satellite_elevation_deg
\*                  and has_satellite_azimuth_deg (set together by the sender)
Obs(ch, prn, sys, sig, fs, cn0, sym, has, flag, el, az, s) ==
    [channel_id |-> ch, prn |-> prn, system |-> sys, signal |-> sig, fs |-> fs,
     cn0_db_hz |-> cn0, flag_valid_symbol_output |-> sym,
     has_position |-> has, flag_valid_satellite_position |-> flag,
     satellite_elevation_deg |-> el, satellite_azimuth_deg |-> az,
     rx_time |-> 0, sin_orbit |-> s, sin_prn |-> s, sin_az |-> s]

\* The observations a channel can report in the resolver specification:
\*   PRN 5 of GPS with a measured position (el 45, az 120),
\*   PRN 5 of GPS without a measured position,
\*   PRN 14 of Galileo whose measured position is flagged valid but out of range,
\*   an unassigned channel (fs = 0) that still carries a measured position.
ObsOf(ch) ==
    { Obs(ch, 5, "G", "1C", 1, 45, TRUE, TRUE, TRUE, 45000, 120000, 0),
      Obs(ch, 5, "G", "1C", 1, 30, FALSE, FALSE, FALSE, 0, 0, -1000),
      Obs(ch, 14, "E", "1B", 1, 38, TRUE, TRUE, TRUE, 91000, 120000, 1000),
      Obs(ch, 14, "E", "1B", 0, 0, FALSE, TRUE, TRUE, 30000, 10000, 0) }

ObsUniverse == UNION { ObsOf(ch) : ch \in ChannelIds }

SeqsUpTo(S, n) == UNION { [1..k -> S] : k \in 0..n }

Batches == SeqsUpTo(ObsUniverse, MaxBatchLen)

\* The observations of the specifications about cycles, fixes and the mouse:
\* one tracked satellite per channel, without measured position
PlainObs(ch) ==
    Obs(ch, 4 + ch, "G", "1C", 1, 40, TRUE, FALSE, FALSE, 0, 0, 0)

PlainBatches == SeqsUpTo({ PlainObs(ch) : ch \in ChannelIds }, MaxBatchLen)

\* A receiver fix (gnss_sdr::MonitorPvt)
Pvt(lat, lon, h, t) == [latitude |-> lat, longitude |-> lon, height |-> h, rx_time |-> t]

\* three accepted fixes (one at the near-zero boundary, one at the range
\* boundary), the all-zero fix, a near-zero fix, and fixes with latitude or
\* longitude out of range
PvtUniverse ==
    { Pvt(45000, 9000, 100, 10), Pvt(2, 0, 5, 40), Pvt(-90000, 180000, 0, 20),
      Pvt(0, 0, 0, 0), Pvt(1, -1, 5, 30),
      Pvt(90001, 9000, 100, 50), Pvt(45000, -180001, 100, 60) }

\* the fixes of the resolver specification: one accepted, one rejected
TierPvts == { Pvt(45000, 9000, 100, 10), Pvt(0, 0, 0, 0) }

\* ------------------------------------------------------------------------
\* Arithmetic of the C++ code
\* ------------------------------------------------------------------------
\* fmod(a, b), b > 0: the result has the sign of a
Fmod(a, b) == IF a >= 0 THEN a % b ELSE -((-a) % b)

\* int a % b, b > 0: truncated division
CMod(a, b) == IF a >= 0 THEN a % b ELSE -((-a) % b)

StdMin(a, b) == IF b < a THEN b ELSE a

StdMax(a, b) == IF a < b THEN b ELSE a

\* ------------------------------------------------------------------------
\* SatelliteInfo
\* ------------------------------------------------------------------------
\* SatelliteInfo::SatelliteInfo()
NewSatelliteInfo ==
    [prn |-> 0, system |-> "", signal |-> "", channel_id |-> -1,
     elevation |-> 0, azimuth |-> 0, positionSource |-> "NONE",
     cn0 |-> 0, valid |-> FALSE, seenInThisUpdate |-> FALSE, missedUpdates |-> 0]

\* SatelliteInfo::isPositionValid()
isPositionValid(sat) ==
    /\ sat.elevation >= 0 /\ sat.elevation <= 90000
    /\ sat.azimuth >= 0 /\ sat.azimuth < 360000
    /\ sat.positionSource # "NONE"

\* ------------------------------------------------------------------------
\* Position resolver
\* ------------------------------------------------------------------------
\* extractRealPosition without the range check on the measured values
extractRealPosition_NoRangeCheck(obs) ==
    IF obs.has_position /\ obs.flag_valid_satellite_position
    THEN <<TRUE, obs.satellite_elevation_deg, obs.satellite_azimuth_deg>>
    ELSE <<FALSE, 0, 0>>

\* SkyPlotWidget::extractRealPosition: <<found, elevation, azimuth>>; the two
\* out-parameters are left as the caller initialised them (0.0) when nothing is found
extractRealPosition(obs) ==
    IF /\ obs.has_position /\ obs.flag_valid_satellite_position
       /\ obs.satellite_elevation_deg >= 0 /\ obs.satellite_elevation_deg <= 90000
       /\ obs.satellite_azimuth_deg >= 0 /\ obs.satellite_azimuth_deg < 360000
    THEN <<TRUE, obs.satellite_elevation_deg, obs.satellite_azimuth_deg>>
    ELSE <<FALSE, 0, 0>>

\* SkyPlotWidget::computeSatelliteElevation.  sin_orbit is the value of
\* sin(2*pi*time_factor/orbital_period + plane_offset), sin_prn the value of
\* sin(prn*c + time_factor*d).
computeSatelliteElevation(prn, system, sin_orbit, sin_prn) ==
    IF system = "G" THEN
        \* 25 + 50*(0.5 + 0.4*sin) + 10*sin, clamped to [5, 85]
        StdMax(5000, StdMin(85000, 25000 + 25000 + 20 * sin_orbit + 10 * sin_prn))
    ELSE IF system = "E" THEN
        \* 30 + 45*(0.5 + 0.35*sin) + 8*sin, clamped to [10, 80]
        StdMax(10000, StdMin(80000, 30000 + 22500 + ((1575 * sin_orbit) \div 100) + 8 * sin_prn))
    ELSE IF system = "R" THEN
        \* 35 + 40*(0.5 + 0.3*sin) + 12*sin, clamped to [15, 75]
        StdMax(15000, StdMin(75000, 35000 + 20000 + 12 * sin_orbit + 12 * sin_prn))
    ELSE IF system = "C" THEN
        \* 28 + 47*(0.5 + 0.38*sin) + 9*sin, clamped to [8, 82]
        StdMax(8000, StdMin(82000, 28000 + 23500 + ((1786 * sin_orbit) \div 100) + 9 * sin_prn))
    ELSE
        30000 + 1000 * Fmod(prn * 7, 50)

\* the orbital-plane index of computeSatelliteElevation and
\* computeSatelliteAzimuth: int orbital_plane = (prn - 1) % 6 for GPS,
\* (prn - 1) % 3 for Galileo, GLONASS and BeiDou
orbitalPlane(prn, system) ==
    IF system = "G" THEN CMod(prn - 1, 6) ELSE CMod(prn - 1, 3)

\* NormalizeAzimuth without the second loop
RECURSIVE NormalizeAzimuth_OnlyNegative(_)
NormalizeAzimuth_OnlyNegative(azimuth) ==
    IF azimuth < 0 THEN NormalizeAzimuth_OnlyNegative(azimuth + 360000)
    ELSE azimuth

\* the two while loops that bring the azimuth into [0, 360)
RECURSIVE NormalizeAzimuth(_)
NormalizeAzimuth(azimuth) ==
    IF azimuth < 0 THEN NormalizeAzimuth(azimuth + 360000)
    ELSE IF azimuth >= 360000 THEN NormalizeAzimuth(azimuth - 360000)
    ELSE azimuth

\* SkyPlotWidget::computeSatelliteAzimuth.  sin_az is the value of
\* sin(2*pi*time_factor/period + prn*c); gps_time is in seconds.
computeSatelliteAzimuth(prn, system, receiver_lon, gps_time, sin_az) ==
    IF system = "G" THEN
        NormalizeAzimuth(CMod(prn - 1, 6) * 60000 + 45 * sin_az
                         + ((receiver_lon * 15) \div 100))
    ELSE IF system = "E" THEN
        NormalizeAzimuth(CMod(prn - 1, 3) * 120000 + 50 * sin_az
                         + ((receiver_lon * 18) \div 100))
    ELSE IF system = "R" THEN
        NormalizeAzimuth(CMod(prn - 1, 3) * 120000 + 60000 + 40 * sin_az
                         + ((receiver_lon * 12) \div 100))
    ELSE IF system = "C" THEN
        NormalizeAzimuth(CMod(prn - 1, 3) * 120000 + 30000 + 48 * sin_az
                         + ((receiver_lon * 16) \div 100))
    ELSE
        \* fmod(prn*23 + time_factor*15, 360), time_factor = gps_time / 3600
        NormalizeAzimuth(Fmod(prn * 23000 + ((gps_time * 15000) \div 3600), 360000))

\* SkyPlotWidget::computeApproximatePosition: <<elevation, azimuth>>
computeApproximatePosition(obs, receiver_lon) ==
    << computeSatelliteElevation(obs.prn, obs.system, obs.sin_orbit, obs.sin_prn),
       computeSatelliteAzimuth(obs.prn, obs.system, receiver_lon, obs.rx_time, obs.sin_az) >>

\* computeFallbackPosition with the elevation pattern not reduced modulo 60
computeFallbackPosition_NoWrap(obs) ==
    LET azimuth == 1000 * Fmod(obs.prn * 23, 360)
    IN  << 20000 + 1000 * (obs.prn * 7),
           IF obs.system = "E" THEN Fmod(azimuth + 90000, 360000)
           ELSE IF obs.system = "R" THEN Fmod(azimuth + 180000, 360000)
           ELSE IF obs.system = "C" THEN Fmod(azimuth + 270000, 360000)
           ELSE azimuth >>

\* computeFallbackPosition with the azimuth pattern taken from the channel id
computeFallbackPosition_ByChannel(obs) ==
    LET elevation == 20000 + 1000 * Fmod(obs.prn * 7, 60)
        azimuth   == 1000 * Fmod(obs.channel_id * 23, 360)
    IN  << elevation,
           IF obs.system = "E" THEN Fmod(azimuth + 90000, 360000)
           ELSE IF obs.system = "R" THEN Fmod(azimuth + 180000, 360000)
           ELSE IF obs.system = "C" THEN Fmod(azimuth + 270000, 360000)
           ELSE azimuth >>

\* computeFallbackPosition with the constellation offset added without fmod
computeFallbackPosition_OffsetUnwrapped(obs) ==
    LET elevation == 20000 + 1000 * Fmod(obs.prn * 7, 60)
        azimuth   == 1000 * Fmod(obs.prn * 23, 360)
    IN  << elevation,
           IF obs.system = "E" THEN azimuth + 90000
           ELSE IF obs.system = "R" THEN azimuth + 180000
           ELSE IF obs.system = "C" THEN azimuth + 270000
           ELSE azimuth >>

\* SkyPlotWidget::computeFallbackPosition: <<elevation, azimuth>>
computeFallbackPosition(obs) ==
    LET elevation == 20000 + 1000 * Fmod(obs.prn * 7, 60)
        azimuth   == 1000 * Fmod(obs.prn * 23, 360)
    IN  << elevation,
           IF obs.system = "E" THEN Fmod(azimuth + 90000, 360000)
           ELSE IF obs.system = "R" THEN Fmod(azimuth + 180000, 360000)
           ELSE IF obs.system = "C" THEN Fmod(azimuth + 270000, 360000)
           ELSE azimuth >>

\* selectTier with the last branch leaving newPositionSource as initialised
selectTier_NoFallback(realFound, hasReceiverPosition) ==
    IF realFound THEN "REAL"
    ELSE IF hasReceiverPosition THEN "COMPUTED"
    ELSE "NONE"

\* selectTier with the receiver fix tried before the measured position
selectTier_FixFirst(realFound, hasReceiverPosition) ==
    IF hasReceiverPosition THEN "COMPUTED"
    ELSE IF realFound THEN "REAL"
    ELSE "FALLBACK"

\* SkyPlotWidget::processSatellite, the if / else-if / else chain that picks
\* the tier: the measured position first, then the receiver fix
selectTier(realFound, hasReceiverPosition) ==
    IF realFound THEN "REAL"
    ELSE IF hasReceiverPosition THEN "COMPUTED"
    ELSE "FALLBACK"

\* the map with the record of channel ch set to sat
Put(sats, ch, sat) ==
    [c \in (DOMAIN sats) \cup {ch} |-> IF c = ch THEN sat ELSE sats[c]]

\* processSatellite keeping, on a channel reassignment, the position the
\* record held for the previous PRN
processSatellite_KeepsOnReassign(sats, obs, hasReceiverPosition, receiverLon) ==
    LET ch   == obs.channel_id
        sat0 == IF ch \in DOMAIN sats THEN sats[ch] ELSE NewSatelliteInfo
        real == extractRealPosition(obs)
        newPositionSource == selectTier(real[1], hasReceiverPosition)
        pos  == IF newPositionSource = "REAL" THEN <<real[2], real[3]>>
                ELSE IF newPositionSource = "COMPUTED"
                     THEN computeApproximatePosition(obs, receiverLon)
                     ELSE computeFallbackPosition(obs)
        sat1 == [sat0 EXCEPT !.prn = obs.prn, !.system = obs.system,
                             !.signal = obs.signal, !.channel_id = ch,
                             !.cn0 = obs.cn0_db_hz,
                             !.valid = obs.flag_valid_symbol_output,
                             !.seenInThisUpdate = TRUE, !.missedUpdates = 0]
    IN  Put(sats, ch,
            IF sat0.prn # 0 /\ sat0.prn # obs.prn
            THEN sat1
            ELSE [sat1 EXCEPT !.elevation = pos[1], !.azimuth = pos[2],
                              !.positionSource = newPositionSource])

\* SkyPlotWidget::processSatellite: the map after one observation
processSatellite(sats, obs, hasReceiverPosition, receiverLon) ==
    LET ch   == obs.channel_id
        \* get or create
        sat0 == IF ch \in DOMAIN sats THEN sats[ch] ELSE NewSatelliteInfo
        \* channel reassignment resets the position source
        src0 == IF sat0.prn # 0 /\ sat0.prn # obs.prn THEN "NONE" ELSE sat0.positionSource
        real == extractRealPosition(obs)
        appr == computeApproximatePosition(obs, receiverLon)
        fall == computeFallbackPosition(obs)
        newPositionSource == selectTier(real[1], hasReceiverPosition)
        elevation == IF newPositionSource = "REAL" THEN real[2]
                     ELSE IF newPositionSource = "COMPUTED" THEN appr[1] ELSE fall[1]
        azimuth   == IF newPositionSource = "REAL" THEN real[3]
                     ELSE IF newPositionSource = "COMPUTED" THEN appr[2] ELSE fall[2]
        sat1 == [sat0 EXCEPT !.prn = obs.prn, !.system = obs.system,
                             !.signal = obs.signal, !.channel_id = ch,
                             !.cn0 = obs.cn0_db_hz,
                             !.valid = obs.flag_valid_symbol_output,
                             !.seenInThisUpdate = TRUE, !.missedUpdates = 0,
                             !.positionSource = src0]
        sat2 == IF elevation >= 0 /\ elevation <= 90000 /\ azimuth >= 0 /\ azimuth < 360000
                THEN [sat1 EXCEPT !.elevation = elevation, !.azimuth = azimuth,
                                  !.positionSource = newPositionSource]
                ELSE IF sat1.positionSource = "NONE"
                THEN [sat1 EXCEPT !.elevation = fall[1], !.azimuth = fall[2],
                                  !.positionSource = "FALLBACK"]
                ELSE sat1
    IN  Put(sats, ch, sat2)

\* ------------------------------------------------------------------------
\* Tracking table
\* ------------------------------------------------------------------------
\* the first loop of updateSatellites: every record is marked as not seen
MarkUnseen(sats) ==
    [c \in DOMAIN sats |-> [sats[c] EXCEPT !.seenInThisUpdate = FALSE]]

\* ProcessObservables skipping an observation whose channel was already
\* processed in this message
RECURSIVE ProcessObservables_FirstWins(_, _, _, _, _)
ProcessObservables_FirstWins(sats, observables, i, hasReceiverPosition, receiverLon) ==
    IF i > Len(observables) THEN sats
    ELSE ProcessObservables_FirstWins(
            IF /\ observables[i].fs # 0
               /\ ~(/\ observables[i].channel_id \in DOMAIN sats
                    /\ sats[observables[i].channel_id].seenInThisUpdate)
            THEN processSatellite(sats, observables[i], hasReceiverPosition, receiverLon)
            ELSE sats,
            observables, i + 1, hasReceiverPosition, receiverLon)

\* ProcessObservables without the test of fs
RECURSIVE ProcessObservables_NoFsCheck(_, _, _, _, _)
ProcessObservables_NoFsCheck(sats, observables, i, hasReceiverPosition, receiverLon) ==
    IF i > Len(observables) THEN sats
    ELSE ProcessObservables_NoFsCheck(
            processSatellite(sats, observables[i], hasReceiverPosition, receiverLon),
            observables, i + 1, hasReceiverPosition, receiverLon)

\* the second loop of updateSatellites: the observations in message order,
\* those with fs = 0 skipped
RECURSIVE ProcessObservables(_, _, _, _, _)
ProcessObservables(sats, observables, i, hasReceiverPosition, receiverLon) ==
    IF i > Len(observables) THEN sats
    ELSE ProcessObservables(
            IF observables[i].fs # 0
            THEN processSatellite(sats, observables[i], hasReceiverPosition, receiverLon)
            ELSE sats,
            observables, i + 1, hasReceiverPosition, receiverLon)

\* CountBySource with the switch lacking the FALLBACK case
CountBySource_NoFallbackCase(sats, src) ==
    IF src = "FALLBACK" THEN 0
    ELSE Cardinality({c \in DOMAIN sats :
                        isPositionValid(sats[c]) /\ sats[c].positionSource = src})

\* the statistics loop of updateSatellites: records with a valid position and source src
CountBySource(sats, src) ==
    Cardinality({c \in DOMAIN sats :
                    isPositionValid(sats[c]) /\ sats[c].positionSource = src})

CountValid(sats) ==
    Cardinality({c \in DOMAIN sats : isPositionValid(sats[c])})

\* cleanupStaleSatellites erasing one missed update too late
cleanupStaleSatellites_LateErase(sats, maxMissedUpdates) ==
    LET bumped == [c \in DOMAIN sats |->
                     IF ~sats[c].seenInThisUpdate
                     THEN [sats[c] EXCEPT !.missedUpdates = @ + 1]
                     ELSE sats[c]]
        kept   == {c \in DOMAIN sats :
                     bumped[c].seenInThisUpdate
                     \/ bumped[c].missedUpdates <= maxMissedUpdates + 1}
    IN  [c \in kept |-> bumped[c]]

\* cleanupStaleSatellites counting a missed update for seen records as well
cleanupStaleSatellites_CountsSeen(sats, maxMissedUpdates) ==
    LET bumped == [c \in DOMAIN sats |-> [sats[c] EXCEPT !.missedUpdates = @ + 1]]
        kept   == {c \in DOMAIN sats :
                     bumped[c].seenInThisUpdate
                     \/ bumped[c].missedUpdates <= maxMissedUpdates}
    IN  [c \in kept |-> bumped[c]]

\* SkyPlotWidget::cleanupStaleSatellites, the map: every record not seen gets
\* missedUpdates + 1 and is erased when that exceeds maxMissedUpdates
cleanupStaleSatellites(sats, maxMissedUpdates) ==
    LET bumped == [c \in DOMAIN sats |->
                     IF ~sats[c].seenInThisUpdate
                     THEN [sats[c] EXCEPT !.missedUpdates = @ + 1]
                     ELSE sats[c]]
        kept   == {c \in DOMAIN sats :
                     bumped[c].seenInThisUpdate
                     \/ bumped[c].missedUpdates <= maxMissedUpdates}
    IN  [c \in kept |-> bumped[c]]

\* PointerAfterCleanup without the reset
PointerAfterCleanup_Kept(ptr, sats, maxMissedUpdates) ==
    ptr

\* SkyPlotWidget::cleanupStaleSatellites, a hover/selection pointer: reset to
\* nullptr when the record it points to is erased
PointerAfterCleanup(ptr, sats, maxMissedUpdates) ==
    IF ptr \in DOMAIN sats /\ ptr \notin DOMAIN cleanupStaleSatellites(sats, maxMissedUpdates)
    THEN NullSat
    ELSE ptr

\* SkyPlotWidget::findSatelliteAt.  The point is the centre of a marker, given
\* by its <<elevation, azimuth>>, or a place without marker; the map is walked
\* in key order and the first valid record drawn at the point is returned.
findSatelliteAt(sats, point) ==
    LET hit == {c \in DOMAIN sats :
                  isPositionValid(sats[c])
                  /\ <<sats[c].elevation, sats[c].azimuth>> = point}
    IN  IF hit = {} THEN NullSat
        ELSE CHOOSE c \in hit : \A d \in hit : c <= d

\* the points a mouse event can carry in the current state
NoMarker == <<-1, -1>>

Points == {NoMarker} \cup
          {<<m_satellites[c].elevation, m_satellites[c].azimuth>> : c \in DOMAIN m_satellites}

\* validPosition with the near-zero test requiring both coordinates away from 0
validPosition_BothNonZero(newLat, newLon) ==
    /\ newLat >= -90000 /\ newLat <= 90000
    /\ newLon >= -180000 /\ newLon <= 180000
    /\ (newLat > 1 \/ newLat < -1) /\ (newLon > 1 \/ newLon < -1)

\* SkyPlotWidget::updateReceiverPosition, validPosition
validPosition(newLat, newLon) ==
    /\ newLat >= -90000 /\ newLat <= 90000
    /\ newLon >= -180000 /\ newLon <= 180000
    /\ (newLat > 1 \/ newLat < -1 \/ newLon > 1 \/ newLon < -1)

\* gnss_sdr::GnssSynchro(): the default-constructed observation
DefaultGnssSynchro == Obs(0, 0, "", "", 0, 0, FALSE, FALSE, FALSE, 0, 0, 0)

\* recomputeOnPositionChange storing the position it computes
recomputeOnPositionChange_Stores(sats, receiverLon) ==
    [c \in DOMAIN sats |->
        IF sats[c].positionSource \in {"COMPUTED", "FALLBACK"}
        THEN [sats[c] EXCEPT
                !.elevation = computeApproximatePosition(DefaultGnssSynchro, receiverLon)[1],
                !.azimuth = computeApproximatePosition(DefaultGnssSynchro, receiverLon)[2]]
        ELSE sats[c]]

\* SkyPlotWidget::updateReceiverPosition, the loop run when the position
\* changed: for COMPUTED and FALLBACK records a position is computed into
\* local variables and dropped; no record is written
recomputeOnPositionChange(sats, receiverLon) ==
    sats

\* scheduleUpdate without the start of the timer
scheduleUpdate_NoStart ==
    /\ m_needsUpdate' = TRUE
    /\ m_timerActive' = m_timerActive

\* SkyPlotWidget::scheduleUpdate
scheduleUpdate ==
    /\ m_needsUpdate' = TRUE
    /\ m_timerActive' = TRUE

\* ------------------------------------------------------------------------
\* EphemerisWidget.  A tab is its title; the clock counts milliseconds, as
\* QDateTime does.  The labels of a tab show lastUpdate and lastEphemeris
\* and hold nothing else.
\* ------------------------------------------------------------------------
DEFAULT_MAX_AGE_SECONDS == 300

\* a tab title is the sequence of its words: the placeholder's title
PlaceholderTitle == <<"Waiting", "for", "data">>

\* QString("PRN %1").arg(prn)
TabTitle(prn) == <<"PRN", prn>>

\* emit name(prn)
Sig(name, prn) == <<name, prn>>

\* std::map: insert or assign, erase
MapPut(map, key, value) ==
    [k \in DOMAIN map \cup {key} |-> IF k = key THEN value ELSE map[k]]

MapErase(map, key) == [k \in DOMAIN map \ {key} |-> map[k]]

\* QTabWidget::removeTab(index), index counted from 0
removeTabAt(tabs, index) ==
    [i \in 1..(Len(tabs) - 1) |-> IF i <= index THEN tabs[i] ELSE tabs[i + 1]]

\* QDateTime::secsTo: msecsTo(other) / 1000, the division truncating
secsTo(from, to) ==
    IF to >= from THEN (to - from) \div 1000 ELSE -((from - to) \div 1000)

\* the test of EphemerisWidget::removeStaleData
isStale_AtEqual(lastUpdate, now, maxAge) == secsTo(lastUpdate, now) >= maxAge

isStale(lastUpdate, now, maxAge) == secsTo(lastUpdate, now) > maxAge

\* EphemerisWidget::findTabIndexByPRN, counted from 0; -1 when there is none
findTabIndexByPRN(tabs, prn) ==
    LET hits == {i \in 1..Len(tabs) : tabs[i] = TabTitle(prn)}
    IN IF hits = {} THEN -1
       ELSE (CHOOSE i \in hits : \A j \in hits : i <= j) - 1

\* EphemerisWidget::updateEphemeris, the placeholder removed on the first data
firstDataTabs_KeepsPlaceholder(tabs, map) == tabs

firstDataTabs(tabs, map) ==
    IF DOMAIN map = {} /\ Len(tabs) = 1 THEN << >> ELSE tabs

\* EphemerisWidget::createTabForSatellite on the pair of tabs and map
createTabForSatellite(s, prn) ==
    [tabs |-> Append(s.tabs, TabTitle(prn)),
     map  |-> MapPut(s.map, prn, [lastUpdate |-> 0, lastEphemeris |-> << >>])]

\* EphemerisWidget::updateTabData
updateTabData(map, prn, ephemeris, now) ==
    IF prn \notin DOMAIN map THEN map
    ELSE MapPut(map, prn, [lastUpdate |-> now, lastEphemeris |-> ephemeris])

\* EphemerisWidget::removeTab on tabs, map and the signals emitted so far
removeTab(s, prn) ==
    IF prn \notin DOMAIN s.map THEN s
    ELSE LET tabIndex == findTabIndexByPRN(s.tabs, prn)
             tabs1 == IF tabIndex >= 0 THEN removeTabAt(s.tabs, tabIndex) ELSE s.tabs
             map1 == MapErase(s.map, prn)
         IN [tabs |-> IF DOMAIN map1 = {} THEN Append(tabs1, PlaceholderTitle)
                      ELSE tabs1,
             map  |-> map1,
             out  |-> Append(s.out, Sig("satelliteRemoved", prn))]

\* the second loop of removeStaleData: removeTab for each PRN of toRemove,
\* which the first loop filled in the map's key order
RECURSIVE removeEach(_, _)
removeEach(s, toRemove) ==
    IF toRemove = {} THEN s
    ELSE LET prn == CHOOSE p \in toRemove : \A q \in toRemove : p <= q
         IN removeEach(removeTab(s, prn), toRemove \ {prn})

\* EphemerisWidget::updateEphemeris
updateEphemeris(ephemeris) ==
    LET prn == ephemeris.prn
        s0 == [tabs |-> firstDataTabs(m_tabWidget, m_ephemerisTabs),
               map  |-> m_ephemerisTabs]
        isNew == prn \notin DOMAIN m_ephemerisTabs
        s1 == IF isNew THEN createTabForSatellite(s0, prn) ELSE s0
    IN /\ m_tabWidget' = s1.tabs
       /\ m_ephemerisTabs' = updateTabData(s1.map, prn, ephemeris, currentDateTime)
       /\ emitted' = (IF isNew THEN <<Sig("satelliteAdded", prn)>> ELSE << >>)
                        \o <<Sig("ephemerisUpdated", prn)>>

\* EphemerisWidget::removeStaleData, which timerEvent calls too
removeStaleData ==
    LET toRemove == {prn \in DOMAIN m_ephemerisTabs :
                        isStale(m_ephemerisTabs[prn].lastUpdate, currentDateTime,
                                m_maxAgeSeconds)}
        s == removeEach([tabs |-> m_tabWidget, map |-> m_ephemerisTabs, out |-> << >>],
                        toRemove)
    IN /\ m_tabWidget' = s.tabs
       /\ m_ephemerisTabs' = s.map
       /\ emitted' = s.out

\* EphemerisWidget::clear
EphemerisWidget_clear ==
    /\ m_ephemerisTabs' = << >>
    /\ m_tabWidget' = <<PlaceholderTitle>>
    /\ emitted' = << >>

\* EphemerisWidget::getSatelliteCount
getSatelliteCount == Cardinality(DOMAIN m_ephemerisTabs)

\* EphemerisWidget::EphemerisWidget, all members but m_maxAgeSeconds
InitEphemeris ==
    /\ m_tabWidget = <<PlaceholderTitle>>
    /\ m_ephemerisTabs = << >>
    /\ currentDateTime = 0
    /\ emitted = << >>
    /\ listener = {}
    /\ satSignal = << >>

\* ------------------------------------------------------------------------
\* GpsEphemerisWrapper.  m_bufferEphemeris is default-constructed and no
\* statement gives it a capacity; m_bufferSize is assigned and never read.
\* ------------------------------------------------------------------------
m_bufferSize == 100

\* boost::circular_buffer<T>(): the capacity of m_bufferEphemeris
bufferCapacity == 0

\* boost::circular_buffer::push_back: a full buffer overwrites its oldest
\* element, and a full buffer of capacity 0 takes nothing
push_back(buffer, capacity, item) ==
    IF Len(buffer) = capacity
    THEN IF Len(buffer) = 0 THEN buffer ELSE Append(Tail(buffer), item)
    ELSE Append(buffer, item)

\* the outcome of a call: it returned a value, or the process stopped
Returned(value) == [crash |-> FALSE, value |-> value]

\* what a read through back() of an empty buffer can give: the process
\* stops, or the call returns some object
UndefinedBack(values) == {[crash |-> TRUE]} \cup {Returned(v) : v \in values}

\* boost::circular_buffer::back, the set of its possible outcomes
back(buffer, values) ==
    IF Len(buffer) > 0 THEN {Returned(buffer[Len(buffer)])}
    ELSE UndefinedBack(values)

\* a call has stopped the process
Crashed == lastReturned # << >> /\ lastReturned.crash

\* GpsEphemerisWrapper::addGpsEphemeris
addGpsEphemeris(gpsEphemeris) ==
    /\ m_bufferEphemeris' = push_back(m_bufferEphemeris, bufferCapacity, gpsEphemeris)
    /\ emitted' = << <<"dataChanged">> >>

\* GpsEphemerisWrapper::GpsEphemerisWrapper
InitWrapper ==
    /\ m_bufferEphemeris = << >>
    /\ lastAdded = << >>
    /\ lastReturned = << >>

\* ------------------------------------------------------------------------
\* Operations.  They set the program variables; lastOp and the history
\* counters are set by the steps of each specification.
\* ------------------------------------------------------------------------
\* SkyPlotWidget::SkyPlotWidget, all members but m_maxMissedUpdates; the class
\* declares no signal and no operation has an emit statement
InitMembers ==
    /\ m_satellites = << >>
    /\ m_needsUpdate = FALSE
    /\ m_timerActive = FALSE
    /\ m_receiverLat = 0
    /\ m_receiverLon = 0
    /\ m_receiverHeight = 0
    /\ m_currentGpsTime = 0
    /\ m_hasReceiverPosition = FALSE
    /\ m_totalSatellites = 0
    /\ m_satellitesWithRealPos = 0
    /\ m_satellitesWithComputedPos = 0
    /\ m_satellitesWithFallbackPos = 0
    /\ m_hoveredSatellite = NullSat
    /\ m_selectedSatellite = NullSat
    /\ lastOp = [op |-> "init", arg |-> << >>]
    /\ absentBatches = [c \in ChannelIds |-> 0]
    /\ staleCalls = 0
    /\ csBase = << >>
    /\ csPhase = "none"
    /\ lastResolved = << >>
    /\ emittedSignals = << >>
    /\ fnResult = << >>

\* SkyPlotWidget::SkyPlotWidget
Init ==
    /\ InitMembers
    /\ InitEphemeris
    /\ InitWrapper
    /\ m_maxAgeSeconds = DEFAULT_MAX_AGE_SECONDS
    /\ m_maxMissedUpdates = DEFAULT_MAX_MISSED_UPDATES
    /\ fnArg = << >>

\* SkyPlotWidget::updateSatellites
updateSatellites(observables) ==
    LET sats == ProcessObservables(MarkUnseen(m_satellites), observables, 1,
                                   m_hasReceiverPosition, m_receiverLon)
    IN  /\ m_satellites' = sats
        /\ m_totalSatellites' = CountValid(sats)
        /\ m_satellitesWithRealPos' = CountBySource(sats, "REAL")
        /\ m_satellitesWithComputedPos' = CountBySource(sats, "COMPUTED")
        /\ m_satellitesWithFallbackPos' = CountBySource(sats, "FALLBACK")
        /\ scheduleUpdate
        /\ UNCHANGED <<m_maxMissedUpdates, fixVars, uiVars>>

\* SkyPlotWidget::updateReceiverPosition
updateReceiverPosition(monitor_pvt) ==
    LET newLat == monitor_pvt.latitude
        newLon == monitor_pvt.longitude
        positionChanged == \/ ~m_hasReceiverPosition
                           \/ m_receiverLat # newLat
                           \/ m_receiverLon # newLon
    IN  /\ IF validPosition(newLat, newLon)
           THEN /\ m_receiverLat' = newLat
                /\ m_receiverLon' = newLon
                /\ m_receiverHeight' = monitor_pvt.height
                /\ m_currentGpsTime' = monitor_pvt.rx_time
                /\ m_hasReceiverPosition' = TRUE
                /\ m_satellites' = IF positionChanged
                                   THEN recomputeOnPositionChange(m_satellites, newLon)
                                   ELSE m_satellites
           ELSE UNCHANGED <<fixVars, m_satellites>>
        /\ scheduleUpdate
        /\ UNCHANGED <<m_maxMissedUpdates, statVars, uiVars>>

\* clear resetting the receiver fix as well
clear_ForgetsFix ==
    /\ m_satellites' = << >>
    /\ m_hoveredSatellite' = NullSat
    /\ m_selectedSatellite' = NullSat
    /\ m_totalSatellites' = 0
    /\ m_satellitesWithRealPos' = 0
    /\ m_satellitesWithComputedPos' = 0
    /\ m_satellitesWithFallbackPos' = 0
    /\ m_receiverLat' = 0
    /\ m_receiverLon' = 0
    /\ m_hasReceiverPosition' = FALSE
    /\ UNCHANGED <<m_maxMissedUpdates, m_receiverHeight, m_currentGpsTime, timerVars>>

\* clear without the reset of the fallback counter
clear_KeepsFallbackCount ==
    /\ m_satellites' = << >>
    /\ m_hoveredSatellite' = NullSat
    /\ m_selectedSatellite' = NullSat
    /\ m_totalSatellites' = 0
    /\ m_satellitesWithRealPos' = 0
    /\ m_satellitesWithComputedPos' = 0
    /\ UNCHANGED <<m_satellitesWithFallbackPos, m_maxMissedUpdates, fixVars, timerVars>>

\* SkyPlotWidget::clear
clear ==
    /\ m_satellites' = << >>
    /\ m_hoveredSatellite' = NullSat
    /\ m_selectedSatellite' = NullSat
    /\ m_totalSatellites' = 0
    /\ m_satellitesWithRealPos' = 0
    /\ m_satellitesWithComputedPos' = 0
    /\ m_satellitesWithFallbackPos' = 0
    /\ UNCHANGED <<m_maxMissedUpdates, fixVars, timerVars>>

\* SkyPlotWidget::clearStale
clearStale ==
    /\ m_satellites' = cleanupStaleSatellites(m_satellites, m_maxMissedUpdates)
    /\ m_hoveredSatellite' = PointerAfterCleanup(m_hoveredSatellite, m_satellites,
                                                 m_maxMissedUpdates)
    /\ m_selectedSatellite' = PointerAfterCleanup(m_selectedSatellite, m_satellites,
                                                  m_maxMissedUpdates)
    /\ scheduleUpdate
    /\ UNCHANGED <<m_maxMissedUpdates, fixVars, statVars>>

\* the lambda connected to m_updateTimer's timeout in the constructor; the
\* timer is single-shot, so it is inactive once it has fired
updateTimerTimeout ==
    /\ m_timerActive
    /\ m_timerActive' = FALSE
    /\ IF m_needsUpdate
       THEN /\ m_satellites' = cleanupStaleSatellites(m_satellites, m_maxMissedUpdates)
            /\ m_hoveredSatellite' = PointerAfterCleanup(m_hoveredSatellite, m_satellites,
                                                         m_maxMissedUpdates)
            /\ m_selectedSatellite' = PointerAfterCleanup(m_selectedSatellite, m_satellites,
                                                          m_maxMissedUpdates)
            /\ m_needsUpdate' = FALSE
       ELSE UNCHANGED <<m_satellites, uiVars, m_needsUpdate>>
    /\ UNCHANGED <<m_maxMissedUpdates, fixVars, statVars>>

\* SkyPlotWidget::mousePressEvent
mousePressEvent(button, point) ==
    /\ m_selectedSatellite' = IF button = "LeftButton"
                              THEN findSatelliteAt(m_satellites, point)
                              ELSE m_selectedSatellite
    /\ UNCHANGED <<m_satellites, timerVars, m_maxMissedUpdates, fixVars, statVars,
                   m_hoveredSatellite>>

\* SkyPlotWidget::mouseMoveEvent
mouseMoveEvent(point) ==
    /\ m_hoveredSatellite' = findSatelliteAt(m_satellites, point)
    /\ UNCHANGED <<m_satellites, timerVars, m_maxMissedUpdates, fixVars, statVars,
                   m_selectedSatellite>>

Op(name, arg) == [op |-> name, arg |-> arg]

\* ------------------------------------------------------------------------
\* Spec: the widget as constructed; the four public slots and the update
\* timer, every kind of receiver fix, one satellite per channel
\* ------------------------------------------------------------------------
BatchStep ==
    \E observables \in PlainBatches :
        /\ updateSatellites(observables)
        /\ lastOp' = Op("updateSatellites", observables)
        /\ UNCHANGED callVars
        /\ UNCHANGED <<ephVars, wrapVars>>
        /\ UNCHANGED histVars

FixStep ==
    \E monitor_pvt \in PvtUniverse :
        /\ updateReceiverPosition(monitor_pvt)
        /\ lastOp' = Op("updateReceiverPosition", monitor_pvt)
        /\ UNCHANGED callVars
        /\ UNCHANGED <<ephVars, wrapVars>>
        /\ UNCHANGED histVars

ClearStep ==
    /\ clear
    /\ lastOp' = Op("clear", Cardinality(DOMAIN m_satellites))
    /\ UNCHANGED callVars
    /\ UNCHANGED <<ephVars, wrapVars>>
    /\ UNCHANGED histVars

ClearStaleStep ==
    /\ clearStale
    /\ lastOp' = Op("clearStale", << >>)
    /\ UNCHANGED callVars
    /\ UNCHANGED <<ephVars, wrapVars>>
    /\ UNCHANGED histVars

TimerStep ==
    /\ updateTimerTimeout
    /\ lastOp' = Op("timeout", << >>)
    /\ UNCHANGED callVars
    /\ UNCHANGED <<ephVars, wrapVars>>
    /\ UNCHANGED histVars

Next ==
    \/ BatchStep
    \/ FixStep
    \/ ClearStep
    \/ ClearStaleStep
    \/ TimerStep

Spec == Init /\ [][Next]_vars

\* ------------------------------------------------------------------------
\* SpecTier: the position resolver; the widget after setMaxMissedUpdates(
\* TierMaxMissed), the four public slots and the update timer, every kind of
\* observation
\* ------------------------------------------------------------------------
TierMaxMissed == 1

\* SkyPlotWidget::setMaxMissedUpdates called on the constructed widget
InitTier ==
    /\ InitMembers
    /\ InitEphemeris
    /\ InitWrapper
    /\ m_maxAgeSeconds = DEFAULT_MAX_AGE_SECONDS
    /\ m_maxMissedUpdates = TierMaxMissed
    /\ fnArg = << >>

\* the channels with an active observation in the message
ActiveChannels(observables) ==
    { observables[i].channel_id : i \in { j \in 1..Len(observables) : observables[j].fs # 0 } }

\* the last active observation of channel c in the message
LastActive(observables, c) ==
    LET idx == { i \in 1..Len(observables) :
                    observables[i].channel_id = c /\ observables[i].fs # 0 }
    IN  observables[CHOOSE i \in idx : \A j \in idx : j <= i]

TierBatchStep ==
    \E observables \in Batches :
        /\ updateSatellites(observables)
        /\ lastOp' = Op("updateSatellites", << >>)
        /\ UNCHANGED callVars
        /\ UNCHANGED <<ephVars, wrapVars>>
        /\ lastResolved' = [c \in ActiveChannels(observables) |->
                              [obs |-> LastActive(observables, c),
                               hasFix |-> m_hasReceiverPosition]]
        /\ UNCHANGED <<absentBatches, staleCalls, csBase, csPhase>>

TierFixStep ==
    \E monitor_pvt \in TierPvts :
        /\ updateReceiverPosition(monitor_pvt)
        /\ lastOp' = Op("updateReceiverPosition", << >>)
        /\ UNCHANGED callVars
        /\ UNCHANGED <<ephVars, wrapVars>>
        /\ UNCHANGED histVars

NextTier ==
    \/ TierBatchStep
    \/ TierFixStep
    \/ ClearStep
    \/ ClearStaleStep
    \/ TimerStep

SpecTier == InitTier /\ [][NextTier]_vars

\* ------------------------------------------------------------------------
\* SpecUI: hover and selection; batches, clear, clearStale, the update timer
\* and the mouse, one satellite per channel.  A cleanup step records in
\* lastOp the evicted records that were hovered or selected.
\* ------------------------------------------------------------------------
\* the records erased by the step that were hovered or selected before it
EvictedReferenced ==
    { c \in DOMAIN m_satellites :
        /\ c \notin DOMAIN m_satellites'
        /\ (c = m_hoveredSatellite \/ c = m_selectedSatellite) }

UIBatchStep ==
    \E observables \in PlainBatches :
        /\ updateSatellites(observables)
        /\ lastOp' = Op("updateSatellites", << >>)
        /\ UNCHANGED callVars
        /\ UNCHANGED <<ephVars, wrapVars>>
        /\ UNCHANGED histVars

UIClearStep ==
    /\ clear
    /\ lastOp' = Op("clear", EvictedReferenced)
    /\ UNCHANGED callVars
    /\ UNCHANGED <<ephVars, wrapVars>>
    /\ UNCHANGED histVars

UIClearStaleStep ==
    /\ clearStale
    /\ lastOp' = Op("clearStale", EvictedReferenced)
    /\ UNCHANGED callVars
    /\ UNCHANGED <<ephVars, wrapVars>>
    /\ UNCHANGED histVars

UITimerStep ==
    /\ updateTimerTimeout
    /\ lastOp' = Op("timeout", EvictedReferenced)
    /\ UNCHANGED callVars
    /\ UNCHANGED <<ephVars, wrapVars>>
    /\ UNCHANGED histVars

MousePressStep ==
    \E button \in {"LeftButton", "RightButton"} : \E point \in Points :
        /\ mousePressEvent(button, point)
        /\ lastOp' = Op("mousePress", << >>)
        /\ UNCHANGED callVars
        /\ UNCHANGED <<ephVars, wrapVars>>
        /\ UNCHANGED histVars

MouseMoveStep ==
    \E point \in Points :
        /\ mouseMoveEvent(point)
        /\ lastOp' = Op("mouseMove", << >>)
        /\ UNCHANGED callVars
        /\ UNCHANGED <<ephVars, wrapVars>>
        /\ UNCHANGED histVars

NextUI ==
    \/ UIBatchStep
    \/ UIClearStep
    \/ UIClearStaleStep
    \/ UITimerStep
    \/ MousePressStep
    \/ MouseMoveStep

SpecUI == Init /\ [][NextUI]_vars

\* ------------------------------------------------------------------------
\* SpecCycles: cycles counted in batches; batches, receiver fixes and the
\* update timer, no clear and no clearStale.  absentBatches[c] counts the
\* consecutive batches that omitted the channel of a record in the table.
\* ------------------------------------------------------------------------
CycBatchStep ==
    \E observables \in PlainBatches :
        /\ updateSatellites(observables)
        /\ lastOp' = Op("updateSatellites", << >>)
        /\ UNCHANGED callVars
        /\ UNCHANGED <<ephVars, wrapVars>>
        /\ absentBatches' =
              [c \in ChannelIds |->
                  IF c \in ActiveChannels(observables) THEN 0
                  ELSE IF c \in DOMAIN m_satellites
                       THEN StdMin(absentBatches[c] + 1, MaxAbsent)
                       ELSE 0]
        /\ UNCHANGED <<staleCalls, csBase, csPhase, lastResolved>>

CycFixStep ==
    \E monitor_pvt \in TierPvts :
        /\ updateReceiverPosition(monitor_pvt)
        /\ lastOp' = Op("updateReceiverPosition", << >>)
        /\ UNCHANGED callVars
        /\ UNCHANGED <<ephVars, wrapVars>>
        /\ UNCHANGED histVars

CycTimerStep ==
    /\ updateTimerTimeout
    /\ lastOp' = Op("timeout", << >>)
    /\ UNCHANGED callVars
    /\ UNCHANGED <<ephVars, wrapVars>>
    /\ absentBatches' = [c \in ChannelIds |->
                            IF c \in DOMAIN m_satellites' THEN absentBatches[c] ELSE 0]
    /\ UNCHANGED <<staleCalls, csBase, csPhase, lastResolved>>

NextCycles ==
    \/ CycBatchStep
    \/ CycFixStep
    \/ CycTimerStep

SpecCycles == Init /\ [][NextCycles]_vars

\* ------------------------------------------------------------------------
\* SpecStale: clearStale; batches, clearStale and the update timer.
\* staleCalls counts the clearStale() calls since the last batch.  When
\* clearStale() is called with no update pending, csBase keeps the table as
\* it was before the call and csPhase follows the call ("called") and the
\* timer pass it scheduled ("done").
\* ------------------------------------------------------------------------
StaleBatchStep ==
    \E observables \in PlainBatches :
        /\ updateSatellites(observables)
        /\ lastOp' = Op("updateSatellites", << >>)
        /\ UNCHANGED callVars
        /\ UNCHANGED <<ephVars, wrapVars>>
        /\ staleCalls' = 0
        /\ csBase' = << >>
        /\ csPhase' = "none"
        /\ UNCHANGED <<absentBatches, lastResolved>>

StaleClearStaleStep ==
    /\ clearStale
    /\ lastOp' = Op("clearStale", << >>)
    /\ UNCHANGED callVars
    /\ UNCHANGED <<ephVars, wrapVars>>
    /\ staleCalls' = StdMin(staleCalls + 1, MaxStaleCalls)
    /\ IF ~m_needsUpdate /\ ~m_timerActive
       THEN csBase' = m_satellites /\ csPhase' = "called"
       ELSE csBase' = << >> /\ csPhase' = "none"
    /\ UNCHANGED <<absentBatches, lastResolved>>

StaleTimerStep ==
    /\ updateTimerTimeout
    /\ lastOp' = Op("timeout", << >>)
    /\ UNCHANGED callVars
    /\ UNCHANGED <<ephVars, wrapVars>>
    /\ IF csPhase = "called"
       THEN csBase' = csBase /\ csPhase' = "done"
       ELSE csBase' = << >> /\ csPhase' = "none"
    /\ UNCHANGED <<absentBatches, staleCalls, lastResolved>>

NextStale ==
    \/ StaleBatchStep
    \/ StaleClearStaleStep
    \/ StaleTimerStep

SpecStale == Init /\ [][NextStale]_vars

\* ------------------------------------------------------------------------
\* SpecFallback: computeFallbackPosition called on its own, on an observation
\* of every PRN up to MaxPrn and every system code
\* ------------------------------------------------------------------------
MaxPrn == 63

\* the system codes of GPS, Galileo, GLONASS, BeiDou, QZSS, IRNSS, and no code
SystemCodes == {"G", "E", "R", "C", "J", "I", ""}

FallbackInputs ==
    { Obs(1, prn, sys, "1C", 1, 40, TRUE, FALSE, FALSE, 0, 0, 0) :
        prn \in 0..MaxPrn, sys \in SystemCodes }

InitFallback ==
    /\ InitMembers
    /\ InitEphemeris
    /\ InitWrapper
    /\ m_maxAgeSeconds = DEFAULT_MAX_AGE_SECONDS
    /\ m_maxMissedUpdates = DEFAULT_MAX_MISSED_UPDATES
    /\ fnArg \in FallbackInputs

FallbackStep ==
    /\ fnResult = << >>
    /\ fnResult' = computeFallbackPosition(fnArg)
    /\ lastOp' = Op("computeFallbackPosition", << >>)
    /\ UNCHANGED <<m_satellites, timerVars, m_maxMissedUpdates, fixVars, statVars,
                   uiVars, histVars, emittedSignals, fnArg, ephVars, wrapVars>>

NextFallback ==
    FallbackStep

SpecFallback == InitFallback /\ [][NextFallback]_vars

\* ------------------------------------------------------------------------
\* SpecResolve: one observation at a time; the widget after
\* setMaxMissedUpdates(TierMaxMissed), messages of at most one observation
\* that differ in time, quality, signal and measured position, the other
\* public slots and the update timer.  A batch step records in lastOp the
\* observation, whether a fix was held and the record of the observation's
\* channel before the message (a fresh SatelliteInfo when there was none).
\* ------------------------------------------------------------------------
\* The observations a channel can report:
\*   PRN 5 of GPS without a measured position, at two times with different
\*   quality and signal,
\*   PRN 14 of Galileo with a measured position flagged valid whose elevation
\*   is out of range, and one whose azimuth is out of range,
\*   PRN 21 of GLONASS with a measured position flagged valid, both negative,
\*   PRN 14 of Galileo with a measured position in range,
\*   PRN 14 of Galileo with a measured position in range but not flagged valid.
ResolveObsOf(ch) ==
    { Obs(ch, 5, "G", "1C", 1, 40, TRUE, FALSE, FALSE, 0, 0, 0),
      [Obs(ch, 5, "G", "2S", 2, 25, FALSE, FALSE, FALSE, 0, 0, 1000) EXCEPT !.rx_time = 7200],
      Obs(ch, 14, "E", "1B", 1, 38, TRUE, TRUE, TRUE, 91000, 120000, -1000),
      [Obs(ch, 14, "E", "1B", 1, 38, TRUE, TRUE, TRUE, 30000, 360000, 1000) EXCEPT !.rx_time = 3600],
      Obs(ch, 21, "R", "1G", 1, 33, TRUE, TRUE, TRUE, -1000, -1000, 0),
      Obs(ch, 14, "E", "1B", 1, 45, TRUE, TRUE, TRUE, 45000, 120000, 0),
      Obs(ch, 14, "E", "1B", 1, 38, TRUE, TRUE, FALSE, 10000, 20000, 0) }

ResolveBatches ==
    SeqsUpTo(UNION { ResolveObsOf(ch) : ch \in ChannelIds }, 1)

\* a copy of the record of channel ch, a fresh SatelliteInfo if there is none
RecordBefore(ch) ==
    IF ch \in DOMAIN m_satellites THEN m_satellites[ch] ELSE NewSatelliteInfo

ResBatchStep ==
    \E observables \in ResolveBatches :
        /\ updateSatellites(observables)
        /\ lastOp' = IF observables = << >>
                      THEN Op("updateSatellites", << >>)
                      ELSE Op("updateSatellites",
                              [obs |-> observables[1], hasFix |-> m_hasReceiverPosition,
                               before |-> RecordBefore(observables[1].channel_id)])
        /\ UNCHANGED callVars
        /\ UNCHANGED <<ephVars, wrapVars>>
        /\ UNCHANGED histVars

NextResolve ==
    \/ ResBatchStep
    \/ TierFixStep
    \/ ClearStep
    \/ ClearStaleStep
    \/ TimerStep

SpecResolve == InitTier /\ [][NextResolve]_vars

\* ------------------------------------------------------------------------
\* SpecInactive: unassigned channels; messages that mix the tracked satellite
\* of a channel with an observation of the channel that has fs = 0, clear and
\* the update timer
\* ------------------------------------------------------------------------
\* an observation of channel ch with fs = 0 that carries a PRN, a quality and
\* a measured position flagged valid
InactiveObs(ch) ==
    Obs(ch, 9, "E", "1B", 0, 50, FALSE, TRUE, TRUE, 30000, 10000, 0)

InactiveBatches ==
    SeqsUpTo({ PlainObs(ch) : ch \in ChannelIds } \cup { InactiveObs(ch) : ch \in ChannelIds },
             MaxBatchLen)

InactBatchStep ==
    \E observables \in InactiveBatches :
        /\ updateSatellites(observables)
        /\ lastOp' = Op("updateSatellites", observables)
        /\ UNCHANGED callVars
        /\ UNCHANGED <<ephVars, wrapVars>>
        /\ UNCHANGED histVars

NextInactive ==
    \/ InactBatchStep
    \/ ClearStep
    \/ TimerStep

SpecInactive == Init /\ [][NextInactive]_vars

\* ------------------------------------------------------------------------
\* SpecDerived: computeSatelliteElevation and computeSatelliteAzimuth called
\* on their own, for every PRN up to MaxDerivedPrn, every system code,
\* receiver longitudes over [-180, 180], times before and after 0 and the
\* three sines anywhere between their extremes
\* ------------------------------------------------------------------------
MaxDerivedPrn == 12

DerivedLons == {-180000, -45000, 0, 9000, 180000}

DerivedTimes == {-7200, 0, 3601}

DerivedInputs ==
    [prn : 0..MaxDerivedPrn, system : SystemCodes, receiver_lon : DerivedLons,
     gps_time : DerivedTimes, sin_orbit : {-1000, 0, 1000}, sin_prn : {-1000, 0, 1000},
     sin_az : {-1000, 0, 333, 1000}]

InitDerived ==
    /\ InitMembers
    /\ InitEphemeris
    /\ InitWrapper
    /\ m_maxAgeSeconds = DEFAULT_MAX_AGE_SECONDS
    /\ m_maxMissedUpdates = DEFAULT_MAX_MISSED_UPDATES
    /\ fnArg \in DerivedInputs

DerivedStep ==
    /\ fnResult = << >>
    /\ fnResult' =
          [elevation |-> computeSatelliteElevation(fnArg.prn, fnArg.system,
                                                   fnArg.sin_orbit, fnArg.sin_prn),
           azimuth |-> computeSatelliteAzimuth(fnArg.prn, fnArg.system, fnArg.receiver_lon,
                                               fnArg.gps_time, fnArg.sin_az),
           orbital_plane |-> orbitalPlane(fnArg.prn, fnArg.system)]
    /\ lastOp' = Op("computeApproximatePosition", << >>)
    /\ UNCHANGED <<m_satellites, timerVars, m_maxMissedUpdates, fixVars, statVars,
                   uiVars, histVars, emittedSignals, fnArg, ephVars, wrapVars>>

NextDerived ==
    DerivedStep

SpecDerived == InitDerived /\ [][NextDerived]_vars

\* ------------------------------------------------------------------------
\* SpecLive: the update timer under the Qt event loop; batches, receiver
\* fixes, clear, clearStale and the timer.  m_updateTimer is single-shot and
\* scheduleUpdate starts it only when it is not active, so a pending timer
\* is never restarted and the event loop delivers its timeout: the timer
\* step is weakly fair.
\* ------------------------------------------------------------------------
NextLive ==
    \/ UIBatchStep
    \/ CycFixStep
    \/ ClearStep
    \/ ClearStaleStep
    \/ TimerStep

SpecLive == Init /\ [][NextLive]_vars /\ WF_vars(TimerStep)

\* ------------------------------------------------------------------------
\* SpecThreshold: the widget after setMaxMissedUpdates(n) for every n from 0
\* to MaxThreshold, the threshold not changed afterwards; batches, receiver
\* fixes, clear, clearStale and the update timer
\* ------------------------------------------------------------------------
MaxThreshold == 5

\* SkyPlotWidget::setMaxMissedUpdates called on the constructed widget
InitThreshold ==
    /\ InitMembers
    /\ InitEphemeris
    /\ InitWrapper
    /\ m_maxAgeSeconds = DEFAULT_MAX_AGE_SECONDS
    /\ m_maxMissedUpdates \in 0..MaxThreshold
    /\ fnArg = << >>

NextThreshold ==
    \/ UIBatchStep
    \/ CycFixStep
    \/ ClearStep
    \/ ClearStaleStep
    \/ TimerStep

SpecThreshold == InitThreshold /\ [][NextThreshold]_vars

\* ------------------------------------------------------------------------
\* SpecDuplicates: messages with several observations of one channel; the
\* widget after setMaxMissedUpdates(TierMaxMissed), batches recorded in
\* lastOp, receiver fixes and the update timer
\* ------------------------------------------------------------------------
\* The observations: for channel 1, PRN 5 of GPS without a measured position
\* at two times with different quality and signal, PRN 14 of Galileo with a
\* measured position, and an fs = 0 observation; for channel 2, its tracked
\* satellite.
DuplicateObs ==
    { Obs(1, 5, "G", "1C", 1, 40, TRUE, FALSE, FALSE, 0, 0, 0),
      [Obs(1, 5, "G", "2S", 2, 25, FALSE, FALSE, FALSE, 0, 0, 1000) EXCEPT !.rx_time = 7200],
      Obs(1, 14, "E", "1B", 1, 45, TRUE, TRUE, TRUE, 45000, 120000, 0),
      InactiveObs(1),
      PlainObs(2) }

DuplicateBatches == SeqsUpTo(DuplicateObs, MaxBatchLen)

DupBatchStep ==
    \E observables \in DuplicateBatches :
        /\ updateSatellites(observables)
        /\ lastOp' = Op("updateSatellites", observables)
        /\ UNCHANGED callVars
        /\ UNCHANGED <<ephVars, wrapVars>>
        /\ UNCHANGED histVars

NextDuplicates ==
    \/ DupBatchStep
    \/ TierFixStep
    \/ TimerStep

SpecDuplicates == InitTier /\ [][NextDuplicates]_vars

\* ------------------------------------------------------------------------
\* Claims on the position resolver (SpecTier)
\* ------------------------------------------------------------------------
\* C1: after any sequence of updateSatellites, updateReceiverPosition,
\* clearStale, clear and timer expiries, every record whose positionSource is
\* not NONE has 0 <= elevation <= 90 and 0 <= azimuth < 360.
C1_RangeInvariant ==
    \A c \in DOMAIN m_satellites :
        m_satellites[c].positionSource # "NONE" =>
            /\ 0 <= m_satellites[c].elevation /\ m_satellites[c].elevation <= 90000
            /\ 0 <= m_satellites[c].azimuth /\ m_satellites[c].azimuth < 360000

\* C1 witness: the table holds a measured, a derived and a pattern position,
\* the last one for PRN 14, reached through batches and an accepted fix
C1_Witness ==
    /\ \E c \in DOMAIN m_satellites : m_satellites[c].positionSource = "COMPUTED"
    /\ \E c \in DOMAIN m_satellites :
          m_satellites[c].positionSource = "FALLBACK" /\ m_satellites[c].prn = 14

\* the observation carries an elevation and azimuth flagged valid and in range
MeasuredInRange(o) ==
    /\ o.has_position /\ o.flag_valid_satellite_position
    /\ 0 <= o.satellite_elevation_deg /\ o.satellite_elevation_deg <= 90000
    /\ 0 <= o.satellite_azimuth_deg /\ o.satellite_azimuth_deg < 360000

\* the derived position of the observation is in range
DerivedInRange(o) ==
    LET d == computeApproximatePosition(o, m_receiverLon)
    IN  0 <= d[1] /\ d[1] <= 90000 /\ 0 <= d[2] /\ d[2] < 360000

\* C10: for every active observation processed in a batch the record's source
\* is REAL if the observation carries an in-range position flagged valid,
\* whether or not a fix is held; otherwise COMPUTED if a fix is held and the
\* derived result is in range; otherwise FALLBACK when no fix is held.
C10_TierOrder ==
    lastOp.op = "updateSatellites" =>
        \A c \in DOMAIN lastResolved :
            LET o == lastResolved[c].obs
                held == lastResolved[c].hasFix
            IN  /\ c \in DOMAIN m_satellites
                /\ MeasuredInRange(o) => m_satellites[c].positionSource = "REAL"
                /\ (~MeasuredInRange(o) /\ held /\ DerivedInRange(o)) =>
                       m_satellites[c].positionSource = "COMPUTED"
                /\ (~MeasuredInRange(o) /\ ~held) =>
                       m_satellites[c].positionSource = "FALLBACK"

\* C10 witness: one batch resolved a measured position while a fix was held
\* and, on the other channel, an out-of-range measured position to COMPUTED
C10_Witness ==
    /\ lastOp.op = "updateSatellites"
    /\ \E c \in DOMAIN lastResolved :
          /\ lastResolved[c].hasFix /\ MeasuredInRange(lastResolved[c].obs)
          /\ m_satellites[c].positionSource = "REAL"
    /\ \E c \in DOMAIN lastResolved :
          /\ lastResolved[c].hasFix /\ lastResolved[c].obs.has_position
          /\ ~MeasuredInRange(lastResolved[c].obs)
          /\ m_satellites[c].positionSource = "COMPUTED"

\* ------------------------------------------------------------------------
\* Claims on the receiver fix and on clear (Spec)
\* ------------------------------------------------------------------------
\* the fix is one that the claim says is accepted
ClaimAccepts(p) ==
    /\ -90000 <= p.latitude /\ p.latitude <= 90000
    /\ -180000 <= p.longitude /\ p.longitude <= 180000
    /\ ~(/\ -1 <= p.latitude /\ p.latitude <= 1
         /\ -1 <= p.longitude /\ p.longitude <= 1)

\* C7: updateReceiverPosition replaces the stored fix (latitude, longitude,
\* height, time, has-fix flag) if and only if latitude is in [-90, 90],
\* longitude in [-180, 180] and not both within 0.001 of zero; for every other
\* input the stored fix and the flag are left exactly as they were.
C7_FixAcceptance ==
    [][ lastOp'.op = "updateReceiverPosition" =>
            IF ClaimAccepts(lastOp'.arg)
            THEN /\ m_receiverLat' = lastOp'.arg.latitude
                 /\ m_receiverLon' = lastOp'.arg.longitude
                 /\ m_receiverHeight' = lastOp'.arg.height
                 /\ m_currentGpsTime' = lastOp'.arg.rx_time
                 /\ m_hasReceiverPosition'
            ELSE UNCHANGED fixVars ]_vars

\* C7 witness: a rejected near-zero fix arrived after an accepted one at the
\* near-zero boundary, which is still the stored fix
C7_Witness ==
    /\ lastOp.op = "updateReceiverPosition"
    /\ lastOp.arg = Pvt(1, -1, 5, 30)
    /\ m_hasReceiverPosition
    /\ m_receiverLat = 2 /\ m_receiverLon = 0 /\ m_currentGpsTime = 40

\* C8: a call to updateReceiverPosition, accepted or rejected, leaves the
\* satellite table unchanged when it returns.
C8_FixKeepsTable ==
    [][ lastOp'.op = "updateReceiverPosition" => m_satellites' = m_satellites ]_vars

\* C8 witness: a fix was accepted while the table holds a record positioned
\* by the pattern tier, which it still is
C8_Witness ==
    /\ lastOp.op = "updateReceiverPosition"
    /\ ClaimAccepts(lastOp.arg)
    /\ m_receiverLat = lastOp.arg.latitude
    /\ \E c \in DOMAIN m_satellites : m_satellites[c].positionSource = "FALLBACK"

\* C9: after clear(), from any reachable state, the table is empty and the
\* four statistics counters are 0.
C9_ClearResets ==
    lastOp.op = "clear" =>
        /\ m_satellites = << >>
        /\ m_totalSatellites = 0
        /\ m_satellitesWithRealPos = 0
        /\ m_satellitesWithComputedPos = 0
        /\ m_satellitesWithFallbackPos = 0

\* C9 witness: clear() removed two records
C9_Witness ==
    /\ lastOp.op = "clear"
    /\ lastOp.arg = 2
    /\ m_satellites = << >>

\* ------------------------------------------------------------------------
\* Claim on hover and selection (SpecUI)
\* ------------------------------------------------------------------------
\* C2: in every reachable state each of the hovered and selected references is
\* null or refers to a record currently in the table; eviction or clear never
\* leaves either reference pointing at a removed record.
C2_NoDanglingReference ==
    /\ m_hoveredSatellite \in {NullSat} \cup DOMAIN m_satellites
    /\ m_selectedSatellite \in {NullSat} \cup DOMAIN m_satellites

\* C2 witness: the update timer evicted a record that was hovered or selected
\* while another record stays in the table
C2_Witness ==
    /\ lastOp.op = "timeout"
    /\ lastOp.arg # {}
    /\ m_satellites # << >>

\* ------------------------------------------------------------------------
\* Claims on cycles (SpecCycles)
\* ------------------------------------------------------------------------
\* C3: counting one cycle per batch, with no clearStale or clear call, a
\* record is never removed while its channel has been absent from at most
\* maxMissedUpdates consecutive batches, whatever receiver-fix updates and
\* timer expiries occur between the batches.
C3_NoEarlyEviction ==
    [][ \A c \in DOMAIN m_satellites :
            c \notin DOMAIN m_satellites' => absentBatches[c] > m_maxMissedUpdates ]_vars

\* C4: once the cycle of the last batch has completed (no update pending), a
\* record whose channel has been absent from maxMissedUpdates + 1 consecutive
\* batches is no longer in the table, and each batch that omitted the channel
\* has increased missedUpdates by exactly 1.
C4_EvictedAfterMaxPlusOne ==
    ~m_needsUpdate =>
        \A c \in DOMAIN m_satellites :
            /\ absentBatches[c] <= m_maxMissedUpdates
            /\ ~m_satellites[c].seenInThisUpdate =>
                   m_satellites[c].missedUpdates = absentBatches[c]

\* ------------------------------------------------------------------------
\* Claims on clearStale (SpecStale)
\* ------------------------------------------------------------------------
\* C5: with no further batches, the table is empty after at most
\* maxMissedUpdates + 1 invocations of clearStale, including records that
\* were observed in the most recent batch.
C5_StaleCallsEmptyTable ==
    staleCalls >= m_maxMissedUpdates + 1 => m_satellites = << >>

\* C6: one clearStale() call counts as one elapsed cycle: after its immediate
\* pass and the timer pass it scheduled, every record not observed in the
\* latest batch has missedUpdates increased by exactly 1 and is evicted if
\* and only if the new value exceeds maxMissedUpdates.
C6_ClearStaleIsOneCycle ==
    csPhase = "done" =>
        \A c \in DOMAIN csBase :
            ~csBase[c].seenInThisUpdate =>
                IF csBase[c].missedUpdates + 1 > m_maxMissedUpdates
                THEN c \notin DOMAIN m_satellites
                ELSE /\ c \in DOMAIN m_satellites
                     /\ m_satellites[c].missedUpdates = csBase[c].missedUpdates + 1

\* ------------------------------------------------------------------------
\* Claim on the pattern tier (SpecFallback)
\* ------------------------------------------------------------------------
\* the constellation offset of the claim, in degrees
ClaimOffset(sys) ==
    IF sys = "E" THEN 90 ELSE IF sys = "R" THEN 180 ELSE IF sys = "C" THEN 270 ELSE 0

\* C11: for every PRN >= 0 and every system code the fallback tier yields
\* elevation = 20 + ((7 * prn) mod 60), in [20, 80), and azimuth =
\* (((23 * prn) mod 360) + offset) mod 360 with offset 90 for E, 180 for R,
\* 270 for C and 0 for every other code, in [0, 360); for prn = 9 and system
\* E this is elevation 23 and azimuth 297.
C11_FallbackPattern ==
    fnResult # << >> =>
        /\ fnResult[1] = 1000 * (20 + ((7 * fnArg.prn) % 60))
        /\ fnResult[2] = 1000 * ((((23 * fnArg.prn) % 360) + ClaimOffset(fnArg.system)) % 360)
        /\ 20000 <= fnResult[1] /\ fnResult[1] < 80000
        /\ 0 <= fnResult[2] /\ fnResult[2] < 360000
        /\ (fnArg.prn = 9 /\ fnArg.system = "E") => fnResult = <<23000, 297000>>

\* C11 witness: the pattern was computed for a BeiDou PRN whose elevation
\* pattern and whose azimuth with offset both wrap around
C11_Witness ==
    /\ fnResult # << >>
    /\ fnArg.system = "C"
    /\ 7 * fnArg.prn >= 60
    /\ ((23 * fnArg.prn) % 360) + 270 >= 360
    /\ fnResult[2] < 270000

\* ------------------------------------------------------------------------
\* Claims on the resolution of one observation (SpecResolve)
\* ------------------------------------------------------------------------
\* the last operation was a message with one observation
OneObservation ==
    lastOp.op = "updateSatellites" /\ lastOp.arg # << >>

\* elevation, azimuth and source of a record
Stored(sat) == <<sat.elevation, sat.azimuth, sat.positionSource>>

\* the pattern position of the claims, a function of prn and system code only
ClaimPattern(prn, sys) ==
    << 1000 * (20 + ((7 * prn) % 60)),
       1000 * ((((23 * prn) % 360) + ClaimOffset(sys)) % 360),
       "FALLBACK" >>

\* C12: with no receiver fix held and no valid measured position in the
\* observation, the position stored for the channel after the batch is a
\* function of (prn, system code) only: whatever the observation time, the
\* channel id, the signal quality and the previous contents of the table,
\* the record holds the same elevation, azimuth and source FALLBACK.
C12_PatternOnly ==
    OneObservation =>
        LET o == lastOp.arg.obs
        IN  (~lastOp.arg.hasFix /\ ~MeasuredInRange(o)) =>
                /\ o.channel_id \in DOMAIN m_satellites
                /\ Stored(m_satellites[o.channel_id]) = ClaimPattern(o.prn, o.system)

\* C12 witness: channel 2 reported PRN 5 at a later time and with another
\* quality where it held a measured position before, and stores what channel
\* 1 stores for PRN 5 reported at time 0
C12_Witness ==
    /\ OneObservation
    /\ ~lastOp.arg.hasFix
    /\ lastOp.arg.obs.channel_id = 2 /\ lastOp.arg.obs.prn = 5
    /\ lastOp.arg.obs.rx_time = 7200
    /\ lastOp.arg.before.positionSource = "REAL"
    /\ 1 \in DOMAIN m_satellites /\ 2 \in DOMAIN m_satellites
    /\ m_satellites[1].prn = 5 /\ m_satellites[1].cn0 = 40
    /\ Stored(m_satellites[1]) = Stored(m_satellites[2])
    /\ m_satellites[2].positionSource = "FALLBACK"

\* the position resolved for the observation alone: the measured one, else
\* the derived one when a fix is held and it is in range, else the pattern
ClaimResolved(o, held) ==
    IF MeasuredInRange(o)
    THEN <<o.satellite_elevation_deg, o.satellite_azimuth_deg, "REAL">>
    ELSE IF held /\ DerivedInRange(o)
         THEN << computeApproximatePosition(o, m_receiverLon)[1],
                 computeApproximatePosition(o, m_receiverLon)[2], "COMPUTED" >>
         ELSE ClaimPattern(o.prn, o.system)

\* C13: when an observation for an existing channel carries a PRN different
\* from the record's stored non-zero PRN, after the batch the record's
\* elevation, azimuth and source are those resolved for the new PRN (or its
\* pattern) and never the values held for the previous PRN.
C13_ReassignResolvesAnew ==
    OneObservation =>
        LET o == lastOp.arg.obs
            b == lastOp.arg.before
        IN  (b.prn # 0 /\ b.prn # o.prn) =>
                Stored(m_satellites[o.channel_id]) = ClaimResolved(o, lastOp.arg.hasFix)

\* C13 witness: a channel holding a measured position for PRN 14 reported
\* PRN 21 with an out-of-range measured position while a fix was held, and
\* the record holds a derived position that is not the one of PRN 14
C13_Witness ==
    /\ OneObservation
    /\ lastOp.arg.hasFix
    /\ lastOp.arg.before.prn = 14 /\ lastOp.arg.before.positionSource = "REAL"
    /\ lastOp.arg.obs.prn = 21 /\ ~MeasuredInRange(lastOp.arg.obs)
    /\ m_satellites[lastOp.arg.obs.channel_id].positionSource = "COMPUTED"
    /\ m_satellites[lastOp.arg.obs.channel_id].elevation # lastOp.arg.before.elevation

\* the measured position is flagged valid and out of range
FlaggedOutOfRange(o) ==
    /\ o.has_position /\ o.flag_valid_satellite_position
    /\ ~MeasuredInRange(o)

\* C17: an observation whose measured position is flagged valid but has
\* elevation outside [0, 90] or azimuth outside [0, 360) never yields source
\* REAL and its out-of-range values are never stored; the record receives
\* the COMPUTED position when a fix is held and the FALLBACK position
\* otherwise.
C17_OutOfRangeFallsThrough ==
    OneObservation =>
        LET o == lastOp.arg.obs
            r == m_satellites[o.channel_id]
        IN  FlaggedOutOfRange(o) =>
                /\ r.positionSource # "REAL"
                /\ (o.satellite_elevation_deg < 0 \/ o.satellite_elevation_deg > 90000)
                       => r.elevation # o.satellite_elevation_deg
                /\ (o.satellite_azimuth_deg < 0 \/ o.satellite_azimuth_deg >= 360000)
                       => r.azimuth # o.satellite_azimuth_deg
                /\ Stored(r) = IF lastOp.arg.hasFix
                               THEN << computeApproximatePosition(o, m_receiverLon)[1],
                                       computeApproximatePosition(o, m_receiverLon)[2],
                                       "COMPUTED" >>
                               ELSE ClaimPattern(o.prn, o.system)

\* C17 witness: with no fix held, a record holding a measured position for
\* PRN 14 received, for PRN 14, an azimuth of 360 flagged valid and holds the
\* pattern position
C17_Witness ==
    /\ OneObservation
    /\ ~lastOp.arg.hasFix
    /\ lastOp.arg.obs.satellite_azimuth_deg = 360000
    /\ FlaggedOutOfRange(lastOp.arg.obs)
    /\ lastOp.arg.before.positionSource = "REAL"
    /\ lastOp.arg.before.prn = lastOp.arg.obs.prn
    /\ m_satellites[lastOp.arg.obs.channel_id].positionSource = "FALLBACK"

\* C19: in every reachable state a record whose seenInThisUpdate flag is true
\* has missedUpdates = 0, and processing an active observation for a channel
\* resets that record's missedUpdates to 0 whatever its previous value.
C19_SeenMeansNoMiss ==
    /\ \A c \in DOMAIN m_satellites :
          m_satellites[c].seenInThisUpdate => m_satellites[c].missedUpdates = 0
    /\ (OneObservation /\ lastOp.arg.obs.fs # 0) =>
          /\ m_satellites[lastOp.arg.obs.channel_id].missedUpdates = 0
          /\ m_satellites[lastOp.arg.obs.channel_id].seenInThisUpdate

\* C19 witness: an observation arrived for a record that had missed an
\* update, while the record of the other channel has missed one
C19_Witness ==
    /\ OneObservation
    /\ lastOp.arg.before.missedUpdates >= 1
    /\ m_satellites[lastOp.arg.obs.channel_id].missedUpdates = 0
    /\ \E c \in DOMAIN m_satellites : m_satellites[c].missedUpdates >= 1

\* C20: at the end of every public operation no record in the table has
\* positionSource NONE, also right after a PRN-change reset.
C20_NoSourceNone ==
    \A c \in DOMAIN m_satellites : m_satellites[c].positionSource # "NONE"

\* C20 witness: with no fix held a channel was reassigned to a PRN reported
\* without a measured position, and the record has a source
C20_Witness ==
    /\ OneObservation
    /\ ~lastOp.arg.hasFix
    /\ lastOp.arg.before.prn = 14 /\ lastOp.arg.obs.prn = 5
    /\ ~lastOp.arg.obs.has_position
    /\ m_satellites[lastOp.arg.obs.channel_id].positionSource = "FALLBACK"

\* ------------------------------------------------------------------------
\* Claim on the statistics (SpecTier)
\* ------------------------------------------------------------------------
\* C14: after any updateSatellites batch, and in every state reached
\* afterwards by clear, clearStale or updateReceiverPosition, the real,
\* computed and fallback sub-counts sum to the total-valid-position count.
C14_SubCountsSumToTotal ==
    m_totalSatellites = m_satellitesWithRealPos + m_satellitesWithComputedPos
                        + m_satellitesWithFallbackPos

\* C14 witness: clearStale() ran while the counters stand at one measured and
\* one pattern position
C14_Witness ==
    /\ lastOp.op = "clearStale"
    /\ m_totalSatellites = 2
    /\ m_satellitesWithRealPos = 1
    /\ m_satellitesWithFallbackPos = 1

\* C15: the statistics do not drift from the table: at the end of every
\* update cycle, including the cycle's mark-and-evict step, the total counter
\* equals the number of records in the table with a valid position and each
\* sub-count equals the number of such records with that source.
C15_StatsMatchTable ==
    ~m_needsUpdate =>
        /\ m_totalSatellites = Cardinality({c \in DOMAIN m_satellites :
                                               isPositionValid(m_satellites[c])})
        /\ \A src \in {"REAL", "COMPUTED", "FALLBACK"} :
              (CASE src = "REAL" -> m_satellitesWithRealPos
                 [] src = "COMPUTED" -> m_satellitesWithComputedPos
                 [] src = "FALLBACK" -> m_satellitesWithFallbackPos)
              = Cardinality({c \in DOMAIN m_satellites :
                                /\ isPositionValid(m_satellites[c])
                                /\ m_satellites[c].positionSource = src})

\* ------------------------------------------------------------------------
\* Claim on unassigned channels (SpecInactive)
\* ------------------------------------------------------------------------
\* the observations of the message that have fs # 0, in message order
ActiveOnly(observables) ==
    SelectSeq(observables, LAMBDA o : o.fs # 0)

\* the channels of the message all of whose observations have fs = 0
InactiveChannels(observables) ==
    { observables[i].channel_id : i \in 1..Len(observables) } \ ActiveChannels(observables)

\* C16: an observation whose fs is 0 is ignored entirely: it creates no
\* record, changes no field of an existing record for its channel, and does
\* not count as the channel being seen in that batch; the message has the
\* effect of the message without it.
C16_InactiveIgnored ==
    [][ lastOp'.op = "updateSatellites" =>
            /\ \A c \in InactiveChannels(lastOp'.arg) :
                  IF c \in DOMAIN m_satellites
                  THEN /\ c \in DOMAIN m_satellites'
                       /\ m_satellites'[c] = [m_satellites[c] EXCEPT !.seenInThisUpdate = FALSE]
                  ELSE c \notin DOMAIN m_satellites'
            /\ DOMAIN m_satellites' = DOMAIN m_satellites \cup ActiveChannels(lastOp'.arg)
            /\ m_satellites' = ProcessObservables(MarkUnseen(m_satellites),
                                                  ActiveOnly(lastOp'.arg), 1,
                                                  m_hasReceiverPosition, m_receiverLon) ]_vars

\* C16 witness: a message carried the tracked satellite of channel 1 and an
\* fs = 0 observation of channel 2; the record of channel 2, which has
\* missed updates, keeps its PRN and is not seen, and channel 1 is seen
C16_Witness ==
    /\ lastOp.op = "updateSatellites"
    /\ lastOp.arg = <<PlainObs(1), InactiveObs(2)>>
    /\ 2 \in DOMAIN m_satellites
    /\ m_satellites[2].prn = PlainObs(2).prn
    /\ m_satellites[2].missedUpdates >= 1
    /\ ~m_satellites[2].seenInThisUpdate
    /\ m_satellites[1].seenInThisUpdate

\* ------------------------------------------------------------------------
\* Claim on notifications (Spec)
\* ------------------------------------------------------------------------
\* the step emitted the signal for channel c
Notified(signal, c) ==
    \E i \in (Len(emittedSignals) + 1)..Len(emittedSignals') :
        emittedSignals'[i] = <<signal, c>>

\* C18: every creation of a record in the table is signalled by a
\* satellite-added notification and every eviction by a satellite-removed
\* notification, emitted before the operation that caused it returns.
C18_CreationAndEvictionSignalled ==
    [][ /\ \A c \in DOMAIN m_satellites' \ DOMAIN m_satellites :
              Notified("satelliteAdded", c)
        /\ \A c \in DOMAIN m_satellites \ DOMAIN m_satellites' :
              Notified("satelliteRemoved", c) ]_vars

\* ------------------------------------------------------------------------
\* Claims on the derived tier (SpecDerived)
\* ------------------------------------------------------------------------
\* C21: for every PRN >= 0, every system code, every receiver longitude in
\* [-180, 180] and every finite time, the derived tier returns an elevation
\* inside the constellation's clamp range (G [5, 85], E [10, 80], R [15, 75],
\* C [8, 82], any other code [30, 80)) and an azimuth in [0, 360), so its
\* result always passes the range gate.
C21_DerivedInRange ==
    fnResult # << >> =>
        /\ CASE fnArg.system = "G" -> 5000 <= fnResult.elevation /\ fnResult.elevation <= 85000
             [] fnArg.system = "E" -> 10000 <= fnResult.elevation /\ fnResult.elevation <= 80000
             [] fnArg.system = "R" -> 15000 <= fnResult.elevation /\ fnResult.elevation <= 75000
             [] fnArg.system = "C" -> 8000 <= fnResult.elevation /\ fnResult.elevation <= 82000
             [] OTHER -> 30000 <= fnResult.elevation /\ fnResult.elevation < 80000
        /\ 0 <= fnResult.azimuth /\ fnResult.azimuth < 360000
        /\ 0 <= fnResult.elevation /\ fnResult.elevation <= 90000

\* C21 witness: a GPS satellite of the last plane seen from longitude 180
\* with the sine at its maximum, whose azimuth 300 + 45 + 27 wraps to 12
C21_Witness ==
    /\ fnResult # << >>
    /\ fnArg.system = "G" /\ fnArg.prn = 12
    /\ fnArg.sin_az = 1000 /\ fnArg.receiver_lon = 180000
    /\ fnResult.azimuth = 12000

\* the plane count of the claim
ClaimPlanes(sys) == IF sys = "G" THEN 6 ELSE 3

\* C22: for every PRN the table can store, including PRN 0, the
\* orbital-plane index used by the derived tier equals (prn - 1) mod k and
\* lies in 0..k-1, where k is 6 for G and 3 for E, R and C.
C22_PlaneIndex ==
    (fnResult # << >> /\ fnArg.system \in {"G", "E", "R", "C"}) =>
        /\ fnResult.orbital_plane = (fnArg.prn - 1) % ClaimPlanes(fnArg.system)
        /\ fnResult.orbital_plane \in 0..(ClaimPlanes(fnArg.system) - 1)

\* ------------------------------------------------------------------------
\* Claim on the update timer (SpecLive)
\* ------------------------------------------------------------------------
\* C23: no update request is lost: whenever m_needsUpdate is true the
\* single-shot update timer is pending, so every call to scheduleUpdate, also
\* one made while the timer is already pending, is eventually followed by a
\* timer expiry that runs the cleanup pass and resets m_needsUpdate to false.
C23_NoLostUpdate ==
    /\ [](m_needsUpdate => m_timerActive)
    /\ (m_needsUpdate ~> (lastOp.op = "timeout" /\ ~m_needsUpdate /\ ~m_timerActive))

\* C23 witness: the timer expired after a batch that omitted channel 1 and a
\* clearStale() made while the timer was pending; its cleanup pass counted
\* the second missed update of the record and no update is pending
C23_Witness ==
    /\ lastOp.op = "timeout"
    /\ ~m_needsUpdate /\ ~m_timerActive
    /\ 1 \in DOMAIN m_satellites
    /\ m_satellites[1].missedUpdates = 2
    /\ \E c \in DOMAIN m_satellites : m_satellites[c].seenInThisUpdate

\* ------------------------------------------------------------------------
\* Claim on the missed-update counter (SpecThreshold)
\* ------------------------------------------------------------------------
\* C24: with maxMissedUpdates held constant at a value >= 0, every record in
\* the table satisfies 0 <= missedUpdates <= maxMissedUpdates at the end of
\* every operation; a record is erased in the same cleanup pass in which its
\* counter first exceeds the threshold.
C24_CounterWithinThreshold ==
    m_maxMissedUpdates >= 0 =>
        \A c \in DOMAIN m_satellites :
            /\ 0 <= m_satellites[c].missedUpdates
            /\ m_satellites[c].missedUpdates <= m_maxMissedUpdates

\* C24 witness: with threshold 2, a timer pass left one record at the
\* threshold and the table without the record of the other channel
C24_Witness ==
    /\ lastOp.op = "timeout"
    /\ m_maxMissedUpdates = 2
    /\ Cardinality(DOMAIN m_satellites) = 1
    /\ \E c \in DOMAIN m_satellites : m_satellites[c].missedUpdates = 2
    /\ m_totalSatellites = 2

\* ------------------------------------------------------------------------
\* Claim on the persistence of the fix (Spec)
\* ------------------------------------------------------------------------
\* C25: once a valid receiver fix has been accepted the widget never returns
\* to the no-fix state: the has-fix flag stays true and the stored latitude
\* and longitude stay equal to the last accepted fix through every later
\* operation, including clear() and rejected fixes, so no observation
\* processed afterwards is resolved by the no-fix fallback branch.
C25_FixPersists ==
    [][ m_hasReceiverPosition =>
            /\ m_hasReceiverPosition'
            /\ IF lastOp'.op = "updateReceiverPosition" /\ ClaimAccepts(lastOp'.arg)
               THEN /\ m_receiverLat' = lastOp'.arg.latitude
                    /\ m_receiverLon' = lastOp'.arg.longitude
               ELSE /\ m_receiverLat' = m_receiverLat
                    /\ m_receiverLon' = m_receiverLon
            /\ lastOp'.op = "updateSatellites" =>
                  \A c \in ActiveChannels(lastOp'.arg) :
                      /\ c \in DOMAIN m_satellites'
                      /\ m_satellites'[c].positionSource # "FALLBACK" ]_vars

\* C25 witness: clear() ran on a widget that holds the fix of latitude 45,
\* longitude 9 and removed two records; the fix is still held
C25_Witness ==
    /\ lastOp.op = "clear"
    /\ lastOp.arg = 2
    /\ m_hasReceiverPosition
    /\ m_receiverLat = 45000 /\ m_receiverLon = 9000

\* ------------------------------------------------------------------------
\* Claim on repeated channels (SpecDuplicates)
\* ------------------------------------------------------------------------
\* the number of active observations of channel c in the message
ActiveCount(observables, c) ==
    Cardinality({ i \in 1..Len(observables) :
                    observables[i].channel_id = c /\ observables[i].fs # 0 })

\* C26: if one batch contains several active observations with the same
\* channel id, the table holds exactly one record for that channel after the
\* batch, its stored channel_id equals its key, and its prn, system, signal,
\* cn0, validity and position are those obtained from the last such
\* observation in batch order.
C26_LastObservationWins ==
    lastOp.op = "updateSatellites" =>
        \A c \in ChannelIds :
            ActiveCount(lastOp.arg, c) >= 2 =>
                LET o == LastActive(lastOp.arg, c)
                IN  /\ c \in DOMAIN m_satellites
                    /\ m_satellites[c].channel_id = c
                    /\ m_satellites[c].prn = o.prn
                    /\ m_satellites[c].system = o.system
                    /\ m_satellites[c].signal = o.signal
                    /\ m_satellites[c].cn0 = o.cn0_db_hz
                    /\ m_satellites[c].valid = o.flag_valid_symbol_output
                    /\ Stored(m_satellites[c]) = ClaimResolved(o, m_hasReceiverPosition)
                    /\ m_satellites[c].seenInThisUpdate

\* C26 witness: a message carried PRN 14 with a measured position and then
\* PRN 5 without one, both on channel 1; the record is the one of PRN 5
C26_Witness ==
    /\ lastOp.op = "updateSatellites"
    /\ Len(lastOp.arg) = 2
    /\ ActiveCount(lastOp.arg, 1) = 2
    /\ lastOp.arg[1].prn = 14 /\ lastOp.arg[2].prn = 5
    /\ m_satellites[1].prn = 5
    /\ m_satellites[1].positionSource # "REAL"

\* ------------------------------------------------------------------------
\* Specification SpecEphemeris: an EphemerisWidget on which
\* setMaxAge(EphMaxAge) was called, under updateEphemeris, removeStaleData
\* (called directly or by timerEvent), clear and the passing of time.
\* ------------------------------------------------------------------------
EphMaxAge == 1
MaxClockMs == 3000

EphemerisInputs ==
    {[prn |-> 3, toe |-> 0], [prn |-> 3, toe |-> 7200], [prn |-> 7, toe |-> 0]}

\* the listener's set after the signals sigs
RECURSIVE ListenerAfter(_, _)
ListenerAfter(held, sigs) ==
    IF sigs = << >> THEN held
    ELSE LET s == Head(sigs)
         IN ListenerAfter(IF s[1] = "satelliteAdded" THEN held \cup {s[2]}
                          ELSE IF s[1] = "satelliteRemoved" THEN held \ {s[2]}
                          ELSE held,
                          Tail(sigs))

\* per PRN the last of satelliteAdded / satelliteRemoved after the signals sigs
RECURSIVE SignalAfter(_, _)
SignalAfter(last, sigs) ==
    IF sigs = << >> THEN last
    ELSE LET s == Head(sigs)
         IN SignalAfter(IF s[1] \in {"satelliteAdded", "satelliteRemoved"}
                        THEN MapPut(last, s[2], s[1]) ELSE last,
                        Tail(sigs))

EphHistory ==
    /\ listener' = ListenerAfter(listener, emitted')
    /\ satSignal' = SignalAfter(satSignal, emitted')

InitEphSpec ==
    /\ InitMembers /\ InitEphemeris /\ InitWrapper
    /\ m_maxMissedUpdates = DEFAULT_MAX_MISSED_UPDATES
    /\ fnArg = << >>
    /\ m_maxAgeSeconds = EphMaxAge
    /\ lastOp = Op("init", << >>)

EphUpdateStep ==
    \E ephemeris \in EphemerisInputs :
        /\ updateEphemeris(ephemeris)
        /\ EphHistory
        /\ lastOp' = Op("updateEphemeris", ephemeris)
        /\ UNCHANGED <<m_maxAgeSeconds, currentDateTime, skyVars, wrapVars>>

EphStaleStep ==
    /\ removeStaleData
    /\ EphHistory
    /\ lastOp' = Op("removeStaleData", << >>)
    /\ UNCHANGED <<m_maxAgeSeconds, currentDateTime, skyVars, wrapVars>>

EphClearStep ==
    /\ EphemerisWidget_clear
    /\ EphHistory
    /\ lastOp' = Op("EphemerisWidget::clear", << >>)
    /\ UNCHANGED <<m_maxAgeSeconds, currentDateTime, skyVars, wrapVars>>

\* half a second passes
EphTickStep ==
    /\ currentDateTime + 500 <= MaxClockMs
    /\ currentDateTime' = currentDateTime + 500
    /\ lastOp' = Op("tick", << >>)
    /\ UNCHANGED <<m_tabWidget, m_ephemerisTabs, m_maxAgeSeconds, emitted,
                   listener, satSignal, skyVars, wrapVars>>

NextEphemeris == EphUpdateStep \/ EphStaleStep \/ EphClearStep \/ EphTickStep

SpecEphemeris == InitEphSpec /\ [][NextEphemeris]_vars

\* C27: the tab widget shows exactly one tab titled "PRN n" for each PRN n
\* of the ephemeris map and nothing else when the map is not empty, exactly
\* one placeholder tab when it is empty, and getSatelliteCount is the
\* number of PRN tabs
PrnTabs == {i \in 1..Len(m_tabWidget) : m_tabWidget[i] # PlaceholderTitle}

C27_TabsMirrorMap ==
    /\ DOMAIN m_ephemerisTabs # {} =>
          /\ \A prn \in DOMAIN m_ephemerisTabs :
                Cardinality({i \in 1..Len(m_tabWidget) :
                                m_tabWidget[i] = TabTitle(prn)}) = 1
          /\ \A i \in 1..Len(m_tabWidget) :
                \E prn \in DOMAIN m_ephemerisTabs : m_tabWidget[i] = TabTitle(prn)
    /\ DOMAIN m_ephemerisTabs = {} => m_tabWidget = <<PlaceholderTitle>>
    /\ getSatelliteCount = Cardinality(PrnTabs)

\* removeStaleData has removed the tab of one PRN and left the other's
C27_Witness ==
    /\ lastOp.op = "removeStaleData"
    /\ emitted = <<Sig("satelliteRemoved", 3)>>
    /\ m_tabWidget = <<TabTitle(7)>>
    /\ DOMAIN m_ephemerisTabs = {7}

\* the signals sigs, emitted in this order after last, continue the
\* alternation of every PRN: satelliteAdded first, then satelliteRemoved, ...
RECURSIVE Alternates(_, _)
Alternates(last, sigs) ==
    IF sigs = << >> THEN TRUE
    ELSE LET s == Head(sigs)
             before == IF s[2] \in DOMAIN last THEN last[s[2]] ELSE "none"
         IN /\ s[1] = "satelliteAdded" => before # "satelliteAdded"
            /\ s[1] = "satelliteRemoved" => before = "satelliteAdded"
            /\ Alternates(SignalAfter(last, <<s>>), Tail(sigs))

\* the PRNs that have a tab
TabPrns ==
    {prn \in DOMAIN m_ephemerisTabs \cup listener :
        \E i \in 1..Len(m_tabWidget) : m_tabWidget[i] = TabTitle(prn)}

\* C28: for every PRN the satelliteAdded and satelliteRemoved emissions
\* strictly alternate, starting with satelliteAdded, over any sequence of
\* updateEphemeris, removeStaleData and clear, and a listener that adds on
\* satelliteAdded and removes on satelliteRemoved always holds exactly the
\* PRNs that have a tab
C28_AddedRemovedAlternate ==
    /\ [](listener = TabPrns)
    /\ [][lastOp'.op # "tick" => Alternates(satSignal, emitted')]_vars

\* the time since the last update of a PRN of the map, in milliseconds
AgeMs(prn) == currentDateTime - m_ephemerisTabs[prn].lastUpdate

\* how often a signal is in a sequence of signals
Emissions(sigs, sig) == Cardinality({i \in 1..Len(sigs) : sigs[i] = sig})

\* a removeStaleData step removes the PRNs of old and no other, leaves the
\* others as they were and emits satelliteRemoved once for each removed PRN
RemovesExactly(old) ==
    lastOp'.op = "removeStaleData" =>
        /\ DOMAIN m_ephemerisTabs' = DOMAIN m_ephemerisTabs \ old
        /\ \A prn \in DOMAIN m_ephemerisTabs' :
              m_ephemerisTabs'[prn] = m_ephemerisTabs[prn]
        /\ \A prn \in DOMAIN m_ephemerisTabs :
              Emissions(emitted', Sig("satelliteRemoved", prn))
                  = IF prn \in old THEN 1 ELSE 0

\* an updateEphemeris step leaves the PRN of its argument with age 0
UpdateRestartsAge ==
    lastOp'.op = "updateEphemeris" =>
        /\ lastOp'.arg.prn \in DOMAIN m_ephemerisTabs'
        /\ m_ephemerisTabs'[lastOp'.arg.prn].lastUpdate = currentDateTime'

\* C29: removeStaleData removes exactly the PRNs whose last update is
\* strictly more than maxAgeSeconds old and keeps every other PRN, one whose
\* age equals maxAgeSeconds included; each updateEphemeris for a PRN restarts
\* its age, and each removed PRN gets exactly one satelliteRemoved emission
C29_RemovesOlderThanMaxAge ==
    [][/\ RemovesExactly({prn \in DOMAIN m_ephemerisTabs :
                             AgeMs(prn) > 1000 * m_maxAgeSeconds})
       /\ UpdateRestartsAge]_vars

\* C29, amended: removeStaleData removes exactly the PRNs whose last update
\* is at least maxAgeSeconds + 1 seconds old, that is whose age in whole
\* seconds, the milliseconds dropped, is strictly more than maxAgeSeconds;
\* it keeps every other PRN, one whose age is maxAgeSeconds and a fraction
\* of a second included; each updateEphemeris for a PRN restarts its age,
\* and each removed PRN gets exactly one satelliteRemoved emission
C29_RemovesByWholeSeconds ==
    [][/\ RemovesExactly({prn \in DOMAIN m_ephemerisTabs :
                             AgeMs(prn) >= 1000 * (m_maxAgeSeconds + 1)})
       /\ UpdateRestartsAge]_vars

\* removeStaleData has removed PRN 3 and kept PRN 7, which is a fraction of
\* a second older than maxAgeSeconds
C29_Witness ==
    /\ lastOp.op = "removeStaleData"
    /\ emitted = <<Sig("satelliteRemoved", 3)>>
    /\ DOMAIN m_ephemerisTabs = {7}
    /\ AgeMs(7) > 1000 * m_maxAgeSeconds

\* ------------------------------------------------------------------------
\* Specification SpecWrapper: a GpsEphemerisWrapper under addGpsEphemeris
\* and getLastGpsEphemeris.  Nothing follows a call that stopped the process.
\* ------------------------------------------------------------------------
MaxWrapperPrn == 8

WrapperInputs == {[prn |-> p, toe |-> 0] : p \in 1..MaxWrapperPrn}

AddStep ==
    \E gpsEphemeris \in WrapperInputs :
        /\ ~Crashed
        /\ addGpsEphemeris(gpsEphemeris)
        /\ lastAdded' = gpsEphemeris
        /\ lastOp' = Op("addGpsEphemeris", gpsEphemeris)
        /\ UNCHANGED <<lastReturned, m_tabWidget, m_ephemerisTabs, m_maxAgeSeconds,
                       currentDateTime, listener, satSignal, skyVars>>

\* GpsEphemerisWrapper::getLastGpsEphemeris
GetLastStep ==
    \E outcome \in back(m_bufferEphemeris, WrapperInputs) :
        /\ ~Crashed
        /\ lastReturned' = outcome
        /\ emitted' = << >>
        /\ lastOp' = Op("getLastGpsEphemeris", << >>)
        /\ UNCHANGED <<m_bufferEphemeris, lastAdded, m_tabWidget, m_ephemerisTabs,
                       m_maxAgeSeconds, currentDateTime, listener, satSignal,
                       skyVars>>

NextWrapper == AddStep \/ GetLastStep

SpecWrapper == Init /\ [][NextWrapper]_vars

\* C30: after at least one addGpsEphemeris the buffer is not empty, holds
\* at most m_bufferSize entries, the most recent argument last, and
\* getLastGpsEphemeris returns the argument of the most recent
\* addGpsEphemeris
C30_LastIsMostRecent ==
    lastAdded # << >> =>
        /\ Len(m_bufferEphemeris) > 0
        /\ Len(m_bufferEphemeris) <= m_bufferSize
        /\ m_bufferEphemeris[Len(m_bufferEphemeris)] = lastAdded
        /\ lastOp.op = "getLastGpsEphemeris" => lastReturned = Returned(lastAdded)
====
